---------------------------- MODULE Spec2Model ----------------------------
(***************************************************************************)
(* Model of the azure-env VS Code extension: the RefreshGuard single-flight *)
(* primitive (utils/refreshGuard.ts), the refresh engine refreshEnvironment *)
(* (commands/refresh.ts) with its key/value transforms                      *)
(* (models/configValue.ts), and the command handlers of extension.ts that   *)
(* trigger refreshes.                                                       *)
(*                                                                          *)
(* The host is a single-threaded event loop: the code between two awaits    *)
(* runs atomically, so each action below is one such run-to-completion      *)
(* segment (a call up to its first await, or the continuation of an await). *)
(*                                                                          *)
(* The specifications share the variables:                                 *)
(*   GuardSpec      tryStart / finish called directly on one RefreshGuard   *)
(*   WithGuardSpec  several callers of withGuard on one RefreshGuard        *)
(*   RefreshSpec    one direct call of refreshEnvironment                   *)
(*   StableSpec     refreshEnvironment called twice against stable stores   *)
(*   FunctionSpec   the functions of models/configValue.ts on their inputs  *)
(*   ErrorSpec      the store clients and the typed errors they throw       *)
(*   KeyVaultSpec   resolveSecret(s) calls on one KeyVaultService           *)
(*   TwinSpec       two runs of refreshCommand that differ in the secrets   *)
(*   ConnectSpec    one run of runConnectFlow                               *)
(*   AddConfigSpec  one run of runAddConfigFlow                             *)
(*   StatusBarSpec  setState calls on one StatusBarManager                  *)
(*   Spec           the extension: the refresh triggers and refreshCommand  *)
(*   FairSpec       the refresh command and timer, every await settling     *)
(*   ActivationSpec one activation: the timer, the commands, deactivate     *)
(***************************************************************************)
EXTENDS Integers, Sequences, FiniteSets, TLC

VARIABLES
    inProgress,   \* RefreshGuard.inProgress
    hist,         \* GuardSpec: the direct tryStart/finish calls made so far
    wg,           \* WithGuardSpec: the activation of withGuard of each caller
    env,          \* the EnvironmentVariableCollection: name -> value
    rf,           \* the activation of refreshEnvironment of each process
    cmd,          \* extension: the command handler activation of each trigger
    ui,           \* extension: the status bar state
    notice,       \* extension: the last notification shown
    settings,     \* the workspace settings azureEnv.appConfiguration
    isTrusted,    \* vscode.workspace.isTrusted
    autoRefreshTimeout,  \* extension: the activation timer (pending or undefined)
    store,        \* StableSpec: the answers of the backing stores, which do not change
    prev,         \* StableSpec: the outcomes of the passes completed so far
    app,          \* FunctionSpec: a pure function, its argument and its result
    kv,           \* KeyVaultSpec: one KeyVaultService and the calls made on it
    twin,         \* TwinSpec: two runs of refreshCommand side by side
    flow,         \* ConnectSpec, AddConfigSpec: the activation of the flow
    sb,           \* StatusBarSpec: one StatusBarManager and its status bar item
    life          \* ActivationSpec: the activation and what became of its timer

guardVars == <<hist, wg>>

\* the variables of the specifications of stable stores and of pure functions
pureVars == <<store, prev, app>>

\* the variables of the specifications of single services and flows
svcVars == <<kv, twin, flow, sb, life>>

extVars == <<cmd, ui, notice, settings, isTrusted, autoRefreshTimeout>>

vars == <<inProgress, hist, wg, env, rf, cmd, ui, notice, settings, isTrusted,
          autoRefreshTimeout, store, prev, app, kv, twin, flow, sb, life>>

-----------------------------------------------------------------------------
(* Bounds of the model *)

\* number of direct tryStart/finish calls explored in GuardSpec
MaxCalls == 6

\* number of concurrent callers of withGuard in WithGuardSpec
NumCallers == 3

\* longest key given to transformKeyToEnvVar in FunctionSpec
MaxKeyLen == 4

\* most tokens in a content type given to isKeyVaultReference in FunctionSpec
MaxTokens == 2

\* most path segments in a URI given to parseKeyVaultSecretUri in FunctionSpec
MaxSegs == 4

\* longest selectedKeys explored in RefreshSpec
MaxKeys == 2

-----------------------------------------------------------------------------
(* RefreshGuard (utils/refreshGuard.ts) *)

\* mutant: tryStart that does not test the flag
tryStartNoCheck(g) == [ret |-> TRUE, inProgress |-> TRUE]

\* mutant: tryStart that forgets to set the flag
tryStartNoSet(g) == [ret |-> ~g, inProgress |-> g]

\* tryStart(): the value returned and the new value of inProgress
tryStart(g) ==
    IF g THEN [ret |-> FALSE, inProgress |-> g]
         ELSE [ret |-> TRUE, inProgress |-> TRUE]

\* mutant: finish that leaves the flag alone
finishNoop(g) == g

\* finish(): the new value of inProgress
finish(g) == FALSE

\* get isRefreshing()
isRefreshing(g) == g

-----------------------------------------------------------------------------
(* GuardSpec: a client calling tryStart and finish directly *)

HistEntry(op, ret, before, after) ==
    [op |-> op, ret |-> ret, before |-> before, after |-> after]

GuardInit ==
    /\ inProgress = FALSE
    /\ hist = <<>>
    /\ store = <<>>
    /\ prev = <<>>
    /\ app = <<>>
    /\ kv = <<>>
    /\ twin = <<>>
    /\ flow = <<>>
    /\ sb = <<>>
    /\ life = <<>>
    /\ wg = <<>>
    /\ env = <<>>
    /\ rf = <<>>
    /\ cmd = <<>>
    /\ ui = <<>>
    /\ notice = <<>>
    /\ settings = <<>>
    /\ isTrusted = TRUE
    /\ autoRefreshTimeout = "undefined"

CallTryStart ==
    /\ Len(hist) < MaxCalls
    /\ LET r == tryStart(inProgress) IN
        /\ inProgress' = r.inProgress
        /\ hist' = Append(hist, HistEntry("tryStart", r.ret, inProgress, r.inProgress))
    /\ UNCHANGED <<wg, env, rf, extVars, pureVars, svcVars>>

CallFinish ==
    /\ Len(hist) < MaxCalls
    /\ inProgress' = finish(inProgress)
    /\ hist' = Append(hist, HistEntry("finish", "void", inProgress, finish(inProgress)))
    /\ UNCHANGED <<wg, env, rf, extVars, pureVars, svcVars>>

GuardNext == CallTryStart \/ CallFinish

GuardSpec == GuardInit /\ [][GuardNext]_vars

-----------------------------------------------------------------------------
(* WithGuardSpec: several callers of withGuard(fn) on one RefreshGuard *)

Callers == 1..NumCallers

\* the errors a guarded function may throw, and the value it may return
Errors == {"e1", "e2"}
FnResults == {"r1"}

\* how fn behaves: it returns a promise that settles later, or it throws
\* before returning one
FnBehaviours == {"async", "syncThrow"}

None == [kind |-> "none", val |-> "none"]
Resolved(v) == [kind |-> "resolved", val |-> v]
Rejected(e) == [kind |-> "rejected", val |-> e]
NotExecuted == [kind |-> "notExecuted", val |-> "none"]
Executed(v) == [kind |-> "executed", val |-> v]

FnOutcomes == {Resolved(v) : v \in FnResults} \cup {Rejected(e) : e \in Errors}

\* an activation of withGuard:
\*   pc        idle | awaiting (fn called, its promise pending) | fnSettled (fn's
\*             promise settled, the continuation of the await not yet run) |
\*             settled (withGuard's promise settled) | observed (the caller's
\*             continuation has run)
\*   invoked   fn was called
\*   fn        how fn's promise settled
\*   ret       how withGuard's promise settled
\*   finishes  number of finish() calls made by this activation
\*   saw       what the other activations were doing when this call was made
\*   obs       what the caller saw when its continuation ran
IdleCall ==
    [pc |-> "idle", invoked |-> FALSE, fn |-> None, ret |-> None, finishes |-> 0,
     saw |-> [pending |-> FALSE, gap |-> FALSE, released |-> FALSE],
     obs |-> [seen |-> FALSE, refreshing |-> FALSE, otherActive |-> FALSE]]

\* mutant: withGuard without the guard test
withGuardCallNoGuard(act, g, beh, e) ==
    IF beh = "syncThrow"
    THEN [act |-> [act EXCEPT !.pc = "settled", !.invoked = TRUE, !.fn = Rejected(e),
                              !.ret = Rejected(e), !.finishes = 1],
          g |-> finish(g)]
    ELSE [act |-> [act EXCEPT !.pc = "awaiting", !.invoked = TRUE], g |-> TRUE]

\* withGuard, from the call to its first await (or to its return): lines 44-48
\* and, when fn throws before returning a promise, the finally of lines 50-52
withGuardCall(act, g, beh, e) ==
    LET r == tryStart(g) IN
    IF ~r.ret
    THEN [act |-> [act EXCEPT !.pc = "settled", !.ret = NotExecuted], g |-> r.inProgress]
    ELSE IF beh = "syncThrow"
    THEN [act |-> [act EXCEPT !.pc = "settled", !.invoked = TRUE, !.fn = Rejected(e),
                              !.ret = Rejected(e), !.finishes = 1],
          g |-> finish(r.inProgress)]
    ELSE [act |-> [act EXCEPT !.pc = "awaiting", !.invoked = TRUE], g |-> r.inProgress]

\* mutant: finish only on the normal return (no finally)
withGuardResumeNoFinally(act, g) ==
    IF act.fn.kind = "resolved"
    THEN [act |-> [act EXCEPT !.pc = "settled", !.ret = Executed(act.fn.val),
                              !.finishes = @ + 1],
          g |-> finish(g)]
    ELSE [act |-> [act EXCEPT !.pc = "settled", !.ret = Rejected(act.fn.val)], g |-> g]

\* mutant: a catch that swallows the error of fn
withGuardResumeSwallow(act, g) ==
    [act |-> [act EXCEPT !.pc = "settled",
                         !.ret = IF act.fn.kind = "resolved"
                                 THEN Executed(act.fn.val) ELSE NotExecuted,
                         !.finishes = @ + 1],
     g |-> finish(g)]

\* withGuard, the continuation of `await fn()`: lines 48-52
withGuardResume(act, g) ==
    [act |-> [act EXCEPT !.pc = "settled",
                         !.ret = IF act.fn.kind = "resolved"
                                 THEN Executed(act.fn.val) ELSE Rejected(act.fn.val),
                         !.finishes = @ + 1],
     g |-> finish(g)]

WithGuardInit ==
    /\ inProgress = FALSE
    /\ hist = <<>>
    /\ store = <<>>
    /\ prev = <<>>
    /\ app = <<>>
    /\ kv = <<>>
    /\ twin = <<>>
    /\ flow = <<>>
    /\ sb = <<>>
    /\ life = <<>>
    /\ wg = [p \in Callers |-> IdleCall]
    /\ env = <<>>
    /\ rf = <<>>
    /\ cmd = <<>>
    /\ ui = <<>>
    /\ notice = <<>>
    /\ settings = <<>>
    /\ isTrusted = TRUE
    /\ autoRefreshTimeout = "undefined"

\* caller p calls guard.withGuard(fn)
WG_Call(p) ==
    /\ wg[p].pc = "idle"
    /\ \E beh \in FnBehaviours, e \in Errors :
        LET others == Callers \ {p}
            saw == [pending  |-> \E q \in others : wg[q].pc = "awaiting",
                    gap      |-> \E q \in others : wg[q].pc = "fnSettled",
                    released |-> \E q \in others :
                                    wg[q].pc \in {"settled", "observed"} /\ wg[q].invoked]
            r == withGuardCall([wg[p] EXCEPT !.saw = saw], inProgress, beh, e)
        IN  /\ wg' = [wg EXCEPT ![p] = r.act]
            /\ inProgress' = r.g
    /\ UNCHANGED <<hist, env, rf, extVars, pureVars, svcVars>>

\* the promise returned by fn settles
WG_FnSettles(p) ==
    /\ wg[p].pc = "awaiting"
    /\ \E o \in FnOutcomes :
        wg' = [wg EXCEPT ![p].pc = "fnSettled", ![p].fn = o]
    /\ UNCHANGED <<inProgress, hist, env, rf, extVars, pureVars, svcVars>>

\* the continuation of `await fn()` runs
WG_Resume(p) ==
    /\ wg[p].pc = "fnSettled"
    /\ LET r == withGuardResume(wg[p], inProgress) IN
        /\ wg' = [wg EXCEPT ![p] = r.act]
        /\ inProgress' = r.g
    /\ UNCHANGED <<hist, env, rf, extVars, pureVars, svcVars>>

\* the continuation of the caller runs: it sees how withGuard settled and reads
\* guard.isRefreshing
WG_Observe(p) ==
    /\ wg[p].pc = "settled"
    /\ wg' = [wg EXCEPT ![p].pc = "observed",
                        ![p].obs = [seen |-> TRUE,
                                    refreshing |-> isRefreshing(inProgress),
                                    otherActive |-> \E q \in Callers \ {p} :
                                        wg[q].pc \in {"awaiting", "fnSettled"}]]
    /\ UNCHANGED <<inProgress, hist, env, rf, extVars, pureVars, svcVars>>

\* the caller is done with the result and may call again
WG_Forget(p) ==
    /\ wg[p].pc = "observed"
    /\ wg' = [wg EXCEPT ![p] = IdleCall]
    /\ UNCHANGED <<inProgress, hist, env, rf, extVars, pureVars, svcVars>>

WithGuardNext ==
    \E p \in Callers :
        \/ WG_Call(p)
        \/ WG_FnSettles(p)
        \/ WG_Resume(p)
        \/ WG_Observe(p)
        \/ WG_Forget(p)

WithGuardSpec == WithGuardInit /\ [][WithGuardNext]_vars

-----------------------------------------------------------------------------
(* Key/value transforms (models/configValue.ts) *)

\* strings whose characters matter are sequences of characters
KeyAB == <<"a", "/", "b">>
KeyA_B == <<"A", "_", "B">>
KeyC == <<"c">>

Keys == {KeyAB, KeyA_B, KeyC}

\* String.prototype.toUpperCase on the characters used
ToUpperCase(c) ==
    CASE c = "a" -> "A"
      [] c = "b" -> "B"
      [] c = "c" -> "C"
      [] OTHER -> c

\* mutant: only the first '/' is replaced (replace without the g flag)
transformKeyToEnvVarFirstOnly(key) ==
    LET first == IF \E i \in 1..Len(key) : key[i] = "/"
                 THEN CHOOSE i \in 1..Len(key) :
                        key[i] = "/" /\ \A j \in 1..(i - 1) : key[j] # "/"
                 ELSE 0
    IN [i \in 1..Len(key) |-> ToUpperCase(IF i = first THEN "_" ELSE key[i])]

\* key.replace(/\//g, '_').toUpperCase()
transformKeyToEnvVar(key) ==
    [i \in 1..Len(key) |-> ToUpperCase(IF key[i] = "/" THEN "_" ELSE key[i])]

\* the value `undefined`, distinct from every string
Undefined == "<undefined>"

\* content types are sequences of lexical tokens; UndefinedCT is `undefined`
UndefinedCT == <<Undefined>>
PlainCT == <<"text/plain">>
KeyVaultRefCT ==
    <<"application/vnd.microsoft.appconfig.", "keyvaultref", "+json", ";charset=utf-8">>

\* the characters of the tokens content types are made of
Chars(tok) ==
    CASE tok = "keyvaultref" ->
            <<"k", "e", "y", "v", "a", "u", "l", "t", "r", "e", "f">>
      [] tok = "keyvault" ->
            <<"k", "e", "y", "v", "a", "u", "l", "t">>
      [] tok = "ref" ->
            <<"r", "e", "f">>
      [] tok = "KeyVaultRef" ->
            <<"K", "e", "y", "V", "a", "u", "l", "t", "R", "e", "f">>
      [] tok = "text/plain" ->
            <<"t", "e", "x", "t", "/", "p", "l", "a", "i", "n">>
      [] tok = "+json" ->
            <<"+", "j", "s", "o", "n">>
      [] tok = ";charset=utf-8" ->
            <<";", "c", "h", "a", "r", "s", "e", "t", "=", "u", "t",
              "f", "-", "8">>
      [] tok = "application/vnd.microsoft.appconfig." ->
            <<"a", "p", "p", "l", "i", "c", "a", "t", "i", "o", "n",
              "/", "v", "n", "d", ".", "m", "i", "c", "r", "o", "s",
              "o", "f", "t", ".", "a", "p", "p", "c", "o", "n", "f",
              "i", "g", ".">>

\* the string a sequence of tokens spells, as its sequence of characters
RECURSIVE Flatten(_)
Flatten(toks) ==
    IF toks = <<>> THEN <<>> ELSE Chars(Head(toks)) \o Flatten(Tail(toks))

\* String.prototype.includes: needle occurs in s as a substring, case-sensitive
Includes(s, needle) ==
    \E k \in 0..(Len(s) - Len(needle)) :
        \A j \in 1..Len(needle) : s[k + j] = needle[j]

\* mutant: the content type is compared as a whole instead of searched
isKeyVaultReferenceExact(contentType) ==
    IF contentType = UndefinedCT
    THEN FALSE
    ELSE Flatten(contentType) = Chars("keyvaultref") \o Chars("+json")

\* contentType?.includes('keyvaultref') ?? false
isKeyVaultReference(contentType) ==
    IF contentType = UndefinedCT
    THEN FALSE
    ELSE Includes(Flatten(contentType), Chars("keyvaultref"))

\* the stored values used
SecretUri == "https://v.vault.azure.net/secrets/MySecret"
RefJson == "{\"uri\":\"https://v.vault.azure.net/secrets/MySecret\"}"
NoUriJson == "{}"
EmptyUriJson == "{\"uri\":\"\"}"
BadJson == "{not json"

\* JSON.parse on the values used: whether it parses, and the uri member of the
\* object it yields
JsonParse(value) ==
    CASE value = RefJson -> [ok |-> TRUE, uri |-> SecretUri]
      [] value = NoUriJson -> [ok |-> TRUE, uri |-> Undefined]
      [] value = EmptyUriJson -> [ok |-> TRUE, uri |-> ""]
      [] OTHER -> [ok |-> FALSE, uri |-> Undefined]

\* an error object: its class and what it carries
Err(kind, detail) == [kind |-> kind, detail |-> detail]

NoError == Err("none", <<>>)

\* parseKeyVaultReference: the uri, or the error thrown
parseKeyVaultReference(value) ==
    LET parsed == JsonParse(value) IN
    IF ~parsed.ok
    THEN [ok |-> FALSE, uri |-> Undefined, error |-> Err("SyntaxError", <<value>>)]
    ELSE IF parsed.uri \in {Undefined, ""}
    THEN [ok |-> FALSE, uri |-> Undefined,
          error |-> Err("Error", <<"Missing uri in Key Vault reference">>)]
    ELSE [ok |-> TRUE, uri |-> parsed.uri, error |-> NoError]

\* what a call of a function that may throw yields
Returned(v) == [threw |-> FALSE, value |-> v, error |-> NoError]
Threw(error) == [threw |-> TRUE, value |-> Undefined, error |-> error]

\* a URI is the sequence of its lexical tokens: a scheme with its colon, "//",
\* a host, then "/" and path segments; VaultHost is the host used
VaultHost == "v.vault.azure.net"
Schemes == {"https:"}

\* new URL(uri): throws unless the string is scheme "//" host followed by a
\* path; the pathname of a URL without a path is "/"
UrlParse(uri) ==
    IF /\ Len(uri) >= 3
       /\ uri[1] \in Schemes
       /\ uri[2] = "//"
       /\ uri[3] \notin {"/", "//"}
       /\ Len(uri) > 3 => uri[4] = "/"
    THEN [ok |-> TRUE, protocol |-> uri[1], host |-> uri[3],
          pathname |-> IF Len(uri) = 3 THEN <<"/">> ELSE SubSeq(uri, 4, Len(uri))]
    ELSE [ok |-> FALSE, protocol |-> Undefined, host |-> Undefined, pathname |-> <<>>]

\* String.prototype.split('/') on a sequence of tokens in which the tokens
\* between two slashes are at most one: the parts between the slashes, the
\* empty string where there is nothing between them
RECURSIVE SplitSlash(_)
SplitSlash(toks) ==
    IF toks = <<>> THEN <<"">>
    ELSE IF Head(toks) = "/" THEN <<"">> \o SplitSlash(Tail(toks))
    ELSE IF Len(toks) = 1 THEN <<Head(toks)>>
    ELSE <<Head(toks)>> \o SplitSlash(Tail(Tail(toks)))

\* parts[k] of a JavaScript array: indices start at 0, and an index past the
\* end gives undefined
At(parts, k) == IF k + 1 <= Len(parts) THEN parts[k + 1] ELSE Undefined

\* parseKeyVaultSecretUri, lines 51-63
parseKeyVaultSecretUri(uri) ==
    LET url == UrlParse(uri) IN
    IF ~url.ok
    THEN Threw(Err("TypeError", <<"Invalid URL">>))
    ELSE LET parts == SplitSlash(url.pathname) IN
         IF At(parts, 1) # "secrets" \/ At(parts, 2) \in {Undefined, ""}
         THEN Threw(Err("Error", <<"Invalid Key Vault secret URI">>))
         ELSE Returned([vaultUrl |-> <<url.protocol, "//", url.host>>,
                        secretName |-> At(parts, 2),
                        version |-> At(parts, 3)])

-----------------------------------------------------------------------------
(* The typed errors (errors/) and the store clients that throw them        *)
(* (services/appConfigService.ts, services/keyVaultService.ts)             *)

\* statusCode of an error that has none
NoStatus == 0

\* the status codes of the failures of the Azure SDK
StatusCodes == {401, 403, 404, 429, 500, 503}

\* the retry-after headers of a failed response: seconds, or no number
RetryAfterHeaders == {"30", "abc"}

\* what the SDK throws: a RestError with a status code and maybe a retry-after
\* header, an Error without a status code, or a value that is not an object
RestError(statusCode, headers) ==
    [kind |-> "RestError", detail |-> <<>>, statusCode |-> statusCode,
     headers |-> headers]
NetworkError == Err("Error", <<"ENOTFOUND">>)
ThrownString == Err("string", <<"boom">>)
SdkErrors ==
    {RestError(c, h) : c \in StatusCodes, h \in RetryAfterHeaders \cup {Undefined}}
    \cup {NetworkError, ThrownString}

\* typeof error === 'object' on the values thrown
IsObject(error) == error.kind # "string"

\* parseInt(header, 10) on the headers used
ParseInt(header) ==
    CASE header = "30" -> [nan |-> FALSE, n |-> 30]
      [] OTHER -> [nan |-> TRUE, n |-> 0]

\* an optional number
NoNumber == [defined |-> FALSE, n |-> 0]
Number(n) == [defined |-> TRUE, n |-> n]

\* extractRetryAfter: the milliseconds of the retry-after header, if it is a
\* number of seconds
extractRetryAfter(error) ==
    IF ~IsObject(error) \/ "headers" \notin DOMAIN error
    THEN NoNumber
    ELSE IF error.headers = Undefined \/ error.headers = ""
    THEN NoNumber
    ELSE IF ParseInt(error.headers).nan
    THEN NoNumber
    ELSE Number(ParseInt(error.headers).n * 1000)

\* isRateLimitError: an object whose statusCode is 429
isRateLimitError(error) ==
    /\ IsObject(error)
    /\ "statusCode" \in DOMAIN error
    /\ error.statusCode = 429

\* no cause given to the constructor of an error
NoCause == Err("none", <<>>)

\* the constructor of AzureEnvError, baseError.ts lines 15-31: statusCode is that
\* of the cause when the cause is an object that has one
StatusCodeOf(cause) ==
    IF cause # NoCause /\ IsObject(cause) /\ "statusCode" \in DOMAIN cause
    THEN cause.statusCode
    ELSE NoStatus

\* the typed errors: the class, what the error carries, its statusCode, its
\* retryAfterMs, and its cause
AppConfigError(key, label, cause) ==
    [kind |-> "AppConfigError", detail |-> <<key, label>>,
     statusCode |-> StatusCodeOf(cause), retryAfterMs |-> NoNumber, cause |-> cause]

KeyVaultError(secretUri, cause) ==
    [kind |-> "KeyVaultError", detail |-> <<secretUri>>,
     statusCode |-> StatusCodeOf(cause), retryAfterMs |-> NoNumber, cause |-> cause]

RateLimitError(service, retryAfterMs, cause) ==
    [kind |-> "RateLimitError", detail |-> <<service>>,
     statusCode |-> 429, retryAfterMs |-> retryAfterMs, cause |-> cause]

KeyVaultReferenceError(value, reason) ==
    [kind |-> "KeyVaultReferenceError", detail |-> <<value, reason>>,
     statusCode |-> NoStatus, retryAfterMs |-> NoNumber, cause |-> NoCause]

ValidationError(field) ==
    [kind |-> "ValidationError", detail |-> <<field>>,
     statusCode |-> NoStatus, retryAfterMs |-> NoNumber, cause |-> NoCause]

\* mutant: every error that has a status code is retryable
isRetryableAnyStatus(error) ==
    CASE error.kind \in {"AppConfigError", "KeyVaultError"} ->
            error.statusCode # NoStatus
      [] error.kind = "RateLimitError" -> TRUE
      [] OTHER -> FALSE

\* the isRetryable property of each class
isRetryable(error) ==
    CASE error.kind \in {"AppConfigError", "KeyVaultError"} ->
            error.statusCode = 429 \/ error.statusCode = 503 \/ error.statusCode = 500
      [] error.kind = "RateLimitError" -> TRUE
      [] error.kind \in {"KeyVaultReferenceError", "ValidationError"} -> FALSE

\* what the SDK call of a store client settles with
SdkOk(value) == [ok |-> TRUE, value |-> value]
SdkFail(error) == [ok |-> FALSE, error |-> error]

\* mutant: an error without a status code is thrown on as it is
getSettingCatchRaw(key, label, error) ==
    IF isRateLimitError(error)
    THEN RateLimitError("AppConfig", extractRetryAfter(error), error)
    ELSE IF StatusCodeOf(error) = NoStatus
    THEN error
    ELSE AppConfigError(key, label, error)

\* the catch block of AppConfigService.getSetting, lines 74-84
getSettingCatch(key, label, error) ==
    IF isRateLimitError(error)
    THEN RateLimitError("AppConfig", extractRetryAfter(error), error)
    ELSE AppConfigError(key, label, error)

\* AppConfigService.getSetting, lines 68-85, given what the SDK settles with
getSetting(key, label, sdk) ==
    IF sdk.ok
    THEN Returned(sdk.value)
    ELSE Threw(getSettingCatch(key, label, sdk.error))

\* the catch block of KeyVaultService.resolveSecret, lines 50-59
resolveSecretCatch(uri, error) ==
    IF error.kind = "KeyVaultError"
    THEN error
    ELSE IF isRateLimitError(error)
    THEN RateLimitError("KeyVault", extractRetryAfter(error), error)
    ELSE KeyVaultError(uri, error)

\* KeyVaultService.resolveSecret, lines 44-60, given what getSecret settles
\* with (it is not called when the uri does not parse)
resolveSecret(uri, sdk) ==
    LET parsed == parseKeyVaultSecretUri(uri) IN
    IF parsed.threw
    THEN Threw(resolveSecretCatch(uri, parsed.error))
    ELSE IF sdk.ok
    THEN Returned(IF sdk.value = Undefined THEN "" ELSE sdk.value)
    ELSE Threw(resolveSecretCatch(uri, sdk.error))

-----------------------------------------------------------------------------
(* The collaborators of refreshEnvironment *)

\* EnvironmentVariableCollection.clear()
EnvClear(e) == <<>>

\* mutant: a name that is already in the collection keeps its value
EnvReplaceKeepFirst(e, name, value) ==
    [n \in (DOMAIN e) \cup {name} |-> IF n \in DOMAIN e THEN e[n] ELSE value]

\* EnvironmentVariableCollection.replace(name, value)
EnvReplace(e, name, value) ==
    [n \in (DOMAIN e) \cup {name} |-> IF n = name THEN value ELSE e[n]]

Labels == {"", "dev"}

\* what AppConfigService.getSetting(key, label) may settle with: a rejection, or
\* a setting {value, contentType}
Setting(value, contentType) ==
    [ok |-> TRUE, value |-> value, contentType |-> contentType,
     error |-> NoError]

GetSettingAnswers(key, label) ==
    { [ok |-> FALSE, value |-> Undefined, contentType |-> UndefinedCT,
       error |-> Err("AppConfigError", <<key, label>>)],
      Setting("v1", PlainCT),
      Setting("", UndefinedCT),
      Setting(Undefined, PlainCT),
      Setting(RefJson, PlainCT),
      Setting(RefJson, KeyVaultRefCT),
      Setting(NoUriJson, KeyVaultRefCT),
      Setting(BadJson, KeyVaultRefCT) }

\* what KeyVaultService.resolveSecret(uri) may settle with
ResolveSecretAnswers(uri) ==
    { [ok |-> FALSE, value |-> Undefined, error |-> Err("KeyVaultError", <<uri>>)],
      [ok |-> TRUE, value |-> "s3cret", error |-> NoError] }

-----------------------------------------------------------------------------
(* refreshEnvironment (commands/refresh.ts) *)

\* the processes that may run refreshEnvironment: a direct caller (RefreshSpec)
\* and the refresh triggers of the extension (Spec): the azureEnv.refresh
\* command (which may be invoked again while an invocation is running), the
\* activation timer, connectCommand and addConfigCommand
Triggers == {"manual", "manual2", "timer", "connect", "addConfig"}
Procs == Triggers \cup {"direct"}

\* one collaborator call or one settled await of a pass, in program order
Call(op, i, a, b) == [op |-> op, i |-> i, a |-> a, b |-> b]

\* an activation of refreshEnvironment:
\*   pc         idle | awaitSetting | awaitSecret | returned
\*   keys, label, cancel   the options: selectedKeys, label, and the
\*              cancellation token (none: not passed, live, requested)
\*   i          index in keys of the occurrence being or next to be processed
\*   value      the local `value`
\*   succeeded, failed, errors   the RefreshResult
\*   calls      the collaborator calls made and the awaits settled so far
IdleRefresh ==
    [pc |-> "idle", keys |-> <<>>, label |-> "", cancel |-> "none", i |-> 1,
     value |-> "", succeeded |-> 0, failed |-> 0, errors |-> <<>>, calls |-> <<>>]

\* mutant: the loop does not look at the cancellation token
reLoopNoCancel(a) ==
    IF a.i > Len(a.keys)
    THEN [a EXCEPT !.pc = "returned"]
    ELSE [a EXCEPT !.pc = "awaitSetting",
                   !.calls = Append(@, Call("getSetting", a.i, a.keys[a.i], a.label))]

\* the head of the for loop, lines 62-76: leave the loop when the keys are
\* exhausted or cancellation is requested, else call getSetting(key, label)
reLoop(a) ==
    IF a.i > Len(a.keys) \/ a.cancel = "requested"
    THEN [a EXCEPT !.pc = "returned"]
    ELSE [a EXCEPT !.pc = "awaitSetting",
                   !.calls = Append(@, Call("getSetting", a.i, a.keys[a.i], a.label))]

\* mutant: nothing to do for an empty selection, so return before clear()
refreshEnvironmentEnterSkipEmpty(keys, label, cancel, e) ==
    LET a0 == [IdleRefresh EXCEPT !.keys = keys, !.label = label, !.cancel = cancel]
    IN  IF keys = <<>>
        THEN [a |-> [a0 EXCEPT !.pc = "returned"], env |-> e]
        ELSE [a |-> reLoop([a0 EXCEPT !.calls = <<Call("clear", 0, <<>>, "")>>]),
              env |-> EnvClear(e)]

\* mutant: a collection that already holds variables is taken as up to date
refreshEnvironmentEnterSkipPopulated(keys, label, cancel, e) ==
    LET a0 == [IdleRefresh EXCEPT !.keys = keys, !.label = label, !.cancel = cancel,
                                  !.calls = <<Call("clear", 0, <<>>, "")>>]
    IN  IF e # <<>>
        THEN [a |-> [a0 EXCEPT !.pc = "returned", !.calls = <<>>], env |-> e]
        ELSE [a |-> reLoop(a0), env |-> EnvClear(e)]

\* refreshEnvironment from its call to its first await, lines 39-76: clear(),
\* the empty result, then the loop
refreshEnvironmentEnter(keys, label, cancel, e) ==
    LET a0 == [IdleRefresh EXCEPT !.keys = keys, !.label = label, !.cancel = cancel,
                                  !.calls = <<Call("clear", 0, <<>>, "")>>]
    IN  [a |-> reLoop(a0), env |-> EnvClear(e)]

\* mutant: a failure ends the batch
reCatchAbort(a, error) ==
    [a EXCEPT !.pc = "returned", !.failed = @ + 1,
              !.errors = Append(@, [key |-> a.keys[a.i], error |-> error]),
              !.i = @ + 1]

\* mutant: a failure is counted but the loop skips the next key too
reCatchSkipNext(a, error) ==
    reLoop([a EXCEPT !.failed = @ + 1,
                     !.errors = Append(@, [key |-> a.keys[a.i], error |-> error]),
                     !.i = @ + 2])

\* mutant: the error is recorded under the first selected key
reCatchWrongKey(a, error) ==
    reLoop([a EXCEPT !.failed = @ + 1,
                     !.errors = Append(@, [key |-> a.keys[1], error |-> error]),
                     !.i = @ + 1])

\* mutant: the first failure of a key is retried instead of recorded
reCatchRetry(a, error) ==
    IF Cardinality({j \in 1..Len(a.calls) :
                        a.calls[j].op = "getSetting" /\ a.calls[j].i = a.i}) = 1
    THEN reLoop(a)
    ELSE reLoop([a EXCEPT !.failed = @ + 1,
                          !.errors = Append(@, [key |-> a.keys[a.i], error |-> error]),
                          !.i = @ + 1])

\* the catch block, lines 89-92, then the next iteration
reCatch(a, error) ==
    reLoop([a EXCEPT !.failed = @ + 1,
                     !.errors = Append(@, [key |-> a.keys[a.i], error |-> error]),
                     !.i = @ + 1])

\* mutant: succeeded is not incremented
reInjectNoCount(a, e, value) ==
    LET envName == transformKeyToEnvVar(a.keys[a.i]) IN
    [a |-> reLoop([a EXCEPT !.value = value,
                            !.calls = Append(@, Call("replace", a.i, envName, value)),
                            !.i = @ + 1]),
     env |-> EnvReplace(e, envName, value)]

\* lines 85-88: replace(transformKeyToEnvVar(key), value), succeeded++, then the
\* next iteration
reInject(a, e, value) ==
    LET envName == transformKeyToEnvVar(a.keys[a.i]) IN
    [a |-> reLoop([a EXCEPT !.value = value,
                            !.calls = Append(@, Call("replace", a.i, envName, value)),
                            !.succeeded = @ + 1,
                            !.i = @ + 1]),
     env |-> EnvReplace(e, envName, value)]

\* mutant: the raw value is injected before the reference is resolved
reSettingSettlesEager(a, e, answer) ==
    LET a1 == [a EXCEPT !.calls = Append(@, Call(IF answer.ok THEN "getSetting.ok"
                                                 ELSE "getSetting.fail",
                                                 a.i, answer.value, answer.contentType))]
        value == IF answer.value = Undefined THEN "" ELSE answer.value
        envName == transformKeyToEnvVar(a.keys[a.i])
    IN  IF ~answer.ok
        THEN [a |-> reCatch(a1, answer.error), env |-> e]
        ELSE IF isKeyVaultReference(answer.contentType)
        THEN LET ref == parseKeyVaultReference(value)
                 a2 == [a1 EXCEPT !.calls = Append(@, Call("replace", a.i, envName, value))]
             IN IF ~ref.ok
                THEN [a |-> reCatch(a2, ref.error), env |-> EnvReplace(e, envName, value)]
                ELSE [a |-> [a2 EXCEPT !.value = value,
                                       !.pc = "awaitSecret",
                                       !.calls = Append(@, Call("resolveSecret", a.i,
                                                                ref.uri, ""))],
                      env |-> EnvReplace(e, envName, value)]
        ELSE reInject(a1, e, value)

\* mutant: resolveSecret is given the stored value instead of the uri in it
reSettingSettlesRawValue(a, e, answer) ==
    LET a1 == [a EXCEPT !.calls = Append(@, Call(IF answer.ok THEN "getSetting.ok"
                                                 ELSE "getSetting.fail",
                                                 a.i, answer.value, answer.contentType))]
        value == IF answer.value = Undefined THEN "" ELSE answer.value
    IN  IF ~answer.ok
        THEN [a |-> reCatch(a1, answer.error), env |-> e]
        ELSE IF isKeyVaultReference(answer.contentType)
        THEN LET ref == parseKeyVaultReference(value) IN
             IF ~ref.ok
             THEN [a |-> reCatch([a1 EXCEPT !.value = value], ref.error), env |-> e]
             ELSE [a |-> [a1 EXCEPT !.value = value,
                                    !.pc = "awaitSecret",
                                    !.calls = Append(@, Call("resolveSecret", a.i,
                                                             value, ""))],
                   env |-> e]
        ELSE reInject(a1, e, value)

\* mutant: an empty or absent value is taken as a missing setting
reSettingSettlesEmptyFails(a, e, answer) ==
    LET a1 == [a EXCEPT !.calls = Append(@, Call(IF answer.ok THEN "getSetting.ok"
                                                 ELSE "getSetting.fail",
                                                 a.i, answer.value, answer.contentType))]
        value == IF answer.value = Undefined THEN "" ELSE answer.value
    IN  IF ~answer.ok
        THEN [a |-> reCatch(a1, answer.error), env |-> e]
        ELSE IF isKeyVaultReference(answer.contentType)
        THEN LET ref == parseKeyVaultReference(value) IN
             IF ~ref.ok
             THEN [a |-> reCatch([a1 EXCEPT !.value = value], ref.error), env |-> e]
             ELSE [a |-> [a1 EXCEPT !.value = value,
                                    !.pc = "awaitSecret",
                                    !.calls = Append(@, Call("resolveSecret", a.i,
                                                             ref.uri, ""))],
                   env |-> e]
        ELSE IF value = ""
        THEN [a |-> reCatch(a1, Err("Error", <<"Missing value">>)), env |-> e]
        ELSE reInject(a1, e, value)

\* mutant: the cancellation token is also looked at when getSetting settles
reSettingSettlesChecksCancel(a, e, answer) ==
    LET a1 == [a EXCEPT !.calls = Append(@, Call(IF answer.ok THEN "getSetting.ok"
                                                 ELSE "getSetting.fail",
                                                 a.i, answer.value, answer.contentType))]
        value == IF answer.value = Undefined THEN "" ELSE answer.value
    IN  IF a.cancel = "requested"
        THEN [a |-> [a1 EXCEPT !.pc = "returned"], env |-> e]
        ELSE IF ~answer.ok
        THEN [a |-> reCatch(a1, answer.error), env |-> e]
        ELSE IF isKeyVaultReference(answer.contentType)
        THEN LET ref == parseKeyVaultReference(value) IN
             IF ~ref.ok
             THEN [a |-> reCatch([a1 EXCEPT !.value = value], ref.error), env |-> e]
             ELSE [a |-> [a1 EXCEPT !.value = value,
                                    !.pc = "awaitSecret",
                                    !.calls = Append(@, Call("resolveSecret", a.i,
                                                             ref.uri, ""))],
                   env |-> e]
        ELSE reInject(a1, e, value)

\* the continuation of `await appConfigService.getSetting(key, label)`, lines
\* 76-83: on rejection the catch block; else value = setting.value ?? '', and for
\* a Key Vault reference parse it and call resolveSecret, else inject the value
reSettingSettles(a, e, answer) ==
    LET a1 == [a EXCEPT !.calls = Append(@, Call(IF answer.ok THEN "getSetting.ok"
                                                 ELSE "getSetting.fail",
                                                 a.i, answer.value, answer.contentType))]
        value == IF answer.value = Undefined THEN "" ELSE answer.value
    IN  IF ~answer.ok
        THEN [a |-> reCatch(a1, answer.error), env |-> e]
        ELSE IF isKeyVaultReference(answer.contentType)
        THEN LET ref == parseKeyVaultReference(value) IN
             IF ~ref.ok
             THEN [a |-> reCatch([a1 EXCEPT !.value = value], ref.error), env |-> e]
             ELSE [a |-> [a1 EXCEPT !.value = value,
                                    !.pc = "awaitSecret",
                                    !.calls = Append(@, Call("resolveSecret", a.i,
                                                             ref.uri, ""))],
                   env |-> e]
        ELSE reInject(a1, e, value)

\* the continuation of `await keyVaultService.resolveSecret(secretUri)`, lines
\* 82-88: on rejection the catch block, else inject the secret
reSecretSettles(a, e, answer) ==
    LET a1 == [a EXCEPT !.calls = Append(@, Call(IF answer.ok THEN "resolveSecret.ok"
                                                 ELSE "resolveSecret.fail",
                                                 a.i, answer.value, ""))]
    IN  IF ~answer.ok
        THEN [a |-> reCatch(a1, answer.error), env |-> e]
        ELSE reInject(a1, e, answer.value)

\* the await of process p on getSetting settles
RE_SettingSettles(p) ==
    /\ rf[p].pc = "awaitSetting"
    /\ \E answer \in GetSettingAnswers(rf[p].keys[rf[p].i], rf[p].label) :
        LET r == reSettingSettles(rf[p], env, answer) IN
        /\ rf' = [rf EXCEPT ![p] = r.a]
        /\ env' = r.env

\* the await of process p on resolveSecret settles
RE_SecretSettles(p) ==
    /\ rf[p].pc = "awaitSecret"
    /\ \E answer \in ResolveSecretAnswers(rf[p].calls[Len(rf[p].calls)].a) :
        LET r == reSecretSettles(rf[p], env, answer) IN
        /\ rf' = [rf EXCEPT ![p] = r.a]
        /\ env' = r.env

\* the user (or the host) requests cancellation of the pass of process p
RE_Cancel(p) ==
    /\ rf[p].pc \in {"awaitSetting", "awaitSecret"}
    /\ rf[p].cancel = "live"
    /\ rf' = [rf EXCEPT ![p].cancel = "requested"]
    /\ UNCHANGED env

-----------------------------------------------------------------------------
(* RefreshSpec: refreshEnvironment called directly, one call after the other *)

\* the selections explored
KeySeqs == UNION {[1..n -> Keys] : n \in 0..MaxKeys}

\* what may be in the collection before a pass
StaleEnvs == {<<>>, [n \in {<<"O", "L", "D">>} |-> "stale"]}

RefreshInit ==
    /\ inProgress = FALSE
    /\ hist = <<>>
    /\ store = <<>>
    /\ prev = <<>>
    /\ app = <<>>
    /\ kv = <<>>
    /\ twin = <<>>
    /\ flow = <<>>
    /\ sb = <<>>
    /\ life = <<>>
    /\ wg = <<>>
    /\ env \in StaleEnvs
    /\ rf = [p \in Procs |-> IdleRefresh]
    /\ cmd = <<>>
    /\ ui = <<>>
    /\ notice = <<>>
    /\ settings = <<>>
    /\ isTrusted = TRUE
    /\ autoRefreshTimeout = "undefined"

\* the caller calls refreshEnvironment(options)
Direct_Call ==
    /\ rf["direct"].pc = "idle"
    /\ \E keys \in KeySeqs, label \in Labels, cancel \in {"none", "live", "requested"} :
        LET r == refreshEnvironmentEnter(keys, label, cancel, env) IN
        /\ rf' = [rf EXCEPT !["direct"] = r.a]
        /\ env' = r.env
    /\ UNCHANGED <<inProgress, hist, wg, extVars, pureVars, svcVars>>

\* the caller has consumed the result and may call again
Direct_Done ==
    /\ rf["direct"].pc = "returned"
    /\ rf' = [rf EXCEPT !["direct"] = IdleRefresh]
    /\ UNCHANGED <<inProgress, hist, wg, env, extVars, pureVars, svcVars>>

RefreshNext ==
    \/ Direct_Call
    \/ Direct_Done
    \/ (RE_SettingSettles("direct") /\ UNCHANGED <<inProgress, hist, wg, extVars, pureVars, svcVars>>)
    \/ (RE_SecretSettles("direct") /\ UNCHANGED <<inProgress, hist, wg, extVars, pureVars, svcVars>>)
    \/ (RE_Cancel("direct") /\ UNCHANGED <<inProgress, hist, wg, extVars, pureVars, svcVars>>)

RefreshSpec == RefreshInit /\ [][RefreshNext]_vars

-----------------------------------------------------------------------------
(* StableSpec: refreshEnvironment called twice in a row with the same       *)
(* options, against stores whose answers do not change                     *)

\* the elements of a sequence
Range(seq) == {seq[i] : i \in 1..Len(seq)}

\* the settings a store holds for the keys ks under label l: one answer of
\* getSetting per key
StoredSettings(ks, l) ==
    {g \in [Range(ks) -> UNION {GetSettingAnswers(k, l) : k \in Range(ks)}] :
        \A k \in Range(ks) : g[k] \in GetSettingAnswers(k, l)}

\* the options of the two calls (selectedKeys, label) and the backing stores:
\* the answer of getSetting for each selected key and of resolveSecret for the
\* uri the references hold
Stores ==
    UNION {
        UNION {
            {[keys |-> ks, label |-> l, setting |-> g, secret |-> sec] :
                g \in StoredSettings(ks, l),
                sec \in [{SecretUri} -> ResolveSecretAnswers(SecretUri)]}
            : l \in Labels}
        : ks \in KeySeqs}

\* the number of calls in a row
NumPasses == 2

\* what a caller keeps of a pass: the RefreshResult and the collection it left
Outcome(a, e) ==
    [succeeded |-> a.succeeded, failed |-> a.failed, errors |-> a.errors, env |-> e]

StableInit ==
    /\ inProgress = FALSE
    /\ hist = <<>>
    /\ store \in Stores
    /\ prev = <<>>
    /\ app = <<>>
    /\ kv = <<>>
    /\ twin = <<>>
    /\ flow = <<>>
    /\ sb = <<>>
    /\ life = <<>>
    /\ wg = <<>>
    /\ env \in StaleEnvs
    /\ rf = [p \in Procs |-> IdleRefresh]
    /\ cmd = <<>>
    /\ ui = <<>>
    /\ notice = <<>>
    /\ settings = <<>>
    /\ isTrusted = TRUE
    /\ autoRefreshTimeout = "undefined"

\* the caller calls refreshEnvironment with the same options, no cancellation
Stable_Call ==
    /\ rf["direct"].pc = "idle"
    /\ Len(prev) < NumPasses
    /\ LET r == refreshEnvironmentEnter(store.keys, store.label, "none", env) IN
        /\ rf' = [rf EXCEPT !["direct"] = r.a]
        /\ env' = r.env
    /\ UNCHANGED <<inProgress, hist, wg, extVars, store, prev, app, svcVars>>

\* getSetting settles with what the store holds for the key
Stable_SettingSettles ==
    /\ rf["direct"].pc = "awaitSetting"
    /\ LET a == rf["direct"]
           r == reSettingSettles(a, env, store.setting[a.keys[a.i]]) IN
        /\ rf' = [rf EXCEPT !["direct"] = r.a]
        /\ env' = r.env
    /\ UNCHANGED <<inProgress, hist, wg, extVars, store, prev, app, svcVars>>

\* resolveSecret settles with what the store holds for the uri
Stable_SecretSettles ==
    /\ rf["direct"].pc = "awaitSecret"
    /\ LET a == rf["direct"]
           r == reSecretSettles(a, env, store.secret[a.calls[Len(a.calls)].a]) IN
        /\ rf' = [rf EXCEPT !["direct"] = r.a]
        /\ env' = r.env
    /\ UNCHANGED <<inProgress, hist, wg, extVars, store, prev, app, svcVars>>

\* the caller keeps the result and what the collection holds
Stable_Done ==
    /\ rf["direct"].pc = "returned"
    /\ prev' = Append(prev, Outcome(rf["direct"], env))
    /\ rf' = [rf EXCEPT !["direct"] = IdleRefresh]
    /\ UNCHANGED <<inProgress, hist, wg, env, extVars, store, app, svcVars>>

StableNext ==
    \/ Stable_Call
    \/ Stable_SettingSettles
    \/ Stable_SecretSettles
    \/ Stable_Done

StableSpec == StableInit /\ [][StableNext]_vars

-----------------------------------------------------------------------------
(* The extension (extension.ts): activation, the refresh triggers, and      *)
(* refreshCommand                                                          *)

Endpoint == "https://mystore.azconfig.io"

\* the selections the settings may hold in Spec: none, one key, and two keys
\* that map to different names
ExtKeySeqs == {<<>>, <<KeyAB>>, <<KeyC, KeyA_B>>}

NoSettings == [endpoint |-> "", selectedKeys |-> <<>>, label |-> ""]

\* whether refreshCommand and activate take the settings as configured
Configured(st) == st.endpoint # "" /\ Len(st.selectedKeys) > 0

\* a notification (showErrorMessage, showWarningMessage, showInformationMessage)
\* shown by the handler of trigger p: its text
Note(p, msg) == msg

\* the activation of a command handler:
\*   pc     idle | connectFlow | addFlow | awaitSignIn | awaitSubs | refreshing
\*   snap   the `settings` constant read by refreshCommand at its start
\*   holds  this refreshCommand acquired the guard and has not yet released it
IdleCmd == [pc |-> "idle", snap |-> NoSettings, holds |-> FALSE]

\* the part of the extension state refreshCommand reads and writes before its
\* first await
ExtState == [inProgress |-> inProgress, status |-> ui.status, notice |-> notice]

\* mutant: a refused refreshCommand still runs the finally block
refreshCommandStartRefusedFinishes(p, x, st, trusted) ==
    IF ~trusted
    THEN [x |-> [x EXCEPT !.notice = Note(p, "Azure Env requires workspace trust")],
          c |-> IdleCmd]
    ELSE LET r == tryStart(x.inProgress) IN
    IF ~r.ret
    THEN [x |-> [x EXCEPT !.inProgress = finish(r.inProgress),
                          !.notice = Note(p, "Environment refresh already in progress")],
          c |-> IdleCmd]
    ELSE IF ~Configured(st)
    THEN [x |-> [x EXCEPT !.inProgress = finish(r.inProgress),
                          !.status = "disconnected",
                          !.notice = Note(p, "No App Configuration configured")],
          c |-> IdleCmd]
    ELSE [x |-> [x EXCEPT !.inProgress = r.inProgress, !.status = "refreshing"],
          c |-> [pc |-> "awaitSignIn", snap |-> st, holds |-> TRUE]]

\* mutant: the guard is taken before the workspace trust check
refreshCommandStartGuardFirst(p, x, st, trusted) ==
    LET r == tryStart(x.inProgress) IN
    IF ~r.ret
    THEN [x |-> [x EXCEPT !.inProgress = r.inProgress,
                          !.notice = Note(p, "Environment refresh already in progress")],
          c |-> IdleCmd]
    ELSE IF ~trusted
    THEN [x |-> [x EXCEPT !.inProgress = r.inProgress,
                          !.notice = Note(p, "Azure Env requires workspace trust")],
          c |-> IdleCmd]
    ELSE IF ~Configured(st)
    THEN [x |-> [x EXCEPT !.inProgress = finish(r.inProgress),
                          !.status = "disconnected",
                          !.notice = Note(p, "No App Configuration configured")],
          c |-> IdleCmd]
    ELSE [x |-> [x EXCEPT !.inProgress = r.inProgress, !.status = "refreshing"],
          c |-> [pc |-> "awaitSignIn", snap |-> st, holds |-> TRUE]]

\* refreshCommand from its call to its first await (or to its return), lines
\* 299-331: the trust check, the guard, the settings check
refreshCommandStart(p, x, st, trusted) ==
    IF ~trusted
    THEN [x |-> [x EXCEPT !.notice = Note(p, "Azure Env requires workspace trust")],
          c |-> IdleCmd]
    ELSE LET r == tryStart(x.inProgress) IN
    IF ~r.ret
    THEN [x |-> [x EXCEPT !.inProgress = r.inProgress,
                          !.notice = Note(p, "Environment refresh already in progress")],
          c |-> IdleCmd]
    ELSE IF ~Configured(st)
    THEN [x |-> [x EXCEPT !.inProgress = finish(r.inProgress),
                          !.status = "disconnected",
                          !.notice = Note(p, "No App Configuration configured")],
          c |-> IdleCmd]
    ELSE [x |-> [x EXCEPT !.inProgress = r.inProgress, !.status = "refreshing"],
          c |-> [pc |-> "awaitSignIn", snap |-> st, holds |-> TRUE]]

\* mutant: the guard is released as soon as the pass has been started
refreshCommandSubsEarlyFinish(p, x, c, e, answer) ==
    LET r == refreshEnvironmentEnter(c.snap.selectedKeys, c.snap.label, "live", e) IN
    IF answer = "found"
    THEN [x |-> [x EXCEPT !.inProgress = finish(x.inProgress)],
          c |-> [c EXCEPT !.pc = "refreshing", !.holds = FALSE],
          a |-> r.a, env |-> r.env]
    ELSE [x |-> [x EXCEPT !.inProgress = finish(x.inProgress), !.status = "error",
                          !.notice = Note(p, answer)],
          c |-> IdleCmd, a |-> IdleRefresh, env |-> e]

\* mutant: a refused or failed sign-in returns without releasing the guard
refreshCommandSignedInKeepsGuard(p, x, c, answer) ==
    IF answer = "true"
    THEN [x |-> x, c |-> [c EXCEPT !.pc = "awaitSubs"]]
    ELSE [x |-> [x EXCEPT !.status = "error",
                          !.notice = Note(p, IF answer = "false"
                                             THEN "Azure sign-in required"
                                             ELSE "Refresh failed")],
          c |-> IdleCmd]

\* refreshCommand, the continuation of `await authService.ensureSignedIn()`,
\* lines 331-339. answer: "true", "false" or "throw"
refreshCommandSignedIn(p, x, c, answer) ==
    IF answer = "true"
    THEN [x |-> x, c |-> [c EXCEPT !.pc = "awaitSubs"]]
    ELSE [x |-> [x EXCEPT !.inProgress = finish(x.inProgress),
                          !.status = "error",
                          !.notice = Note(p, IF answer = "false"
                                             THEN "Azure sign-in required"
                                             ELSE "Refresh failed")],
          c |-> IdleCmd]

\* mutant: the collection is cleared before the subscriptions are looked at
refreshCommandSubsClearsFirst(p, x, c, e, answer) ==
    IF answer = "found"
    THEN LET r == refreshEnvironmentEnter(c.snap.selectedKeys, c.snap.label, "live", e)
         IN [x |-> x, c |-> [c EXCEPT !.pc = "refreshing"], a |-> r.a, env |-> r.env]
    ELSE [x |-> [x EXCEPT !.inProgress = finish(x.inProgress),
                          !.status = "error",
                          !.notice = Note(p,
                              CASE answer = "empty" -> "No Azure subscriptions available"
                                [] answer = "notFound" ->
                                    "The Azure subscription used during setup is no longer available"
                                [] OTHER -> "Refresh failed")],
          c |-> IdleCmd, a |-> IdleRefresh, env |-> EnvClear(e)]

\* refreshCommand, the continuation of `await authService.getSubscriptions()`,
\* lines 339-390: without the saved subscription it ends in error; with it, it
\* calls withProgress, whose task calls refreshEnvironment with a live token.
\* answer: "found", "empty", "notFound" or "throw"
refreshCommandSubs(p, x, c, e, answer) ==
    IF answer = "found"
    THEN LET r == refreshEnvironmentEnter(c.snap.selectedKeys, c.snap.label, "live", e)
         IN [x |-> x, c |-> [c EXCEPT !.pc = "refreshing"], a |-> r.a, env |-> r.env]
    ELSE [x |-> [x EXCEPT !.inProgress = finish(x.inProgress),
                          !.status = "error",
                          !.notice = Note(p,
                              CASE answer = "empty" -> "No Azure subscriptions available"
                                [] answer = "notFound" ->
                                    "The Azure subscription used during setup is no longer available"
                                [] OTHER -> "Refresh failed")],
          c |-> IdleCmd, a |-> IdleRefresh, env |-> e]

\* mutant: the outcome is shown but the status bar is left as it is
refreshCommandDoneKeepsStatus(p, x, a, setDataThrows) ==
    IF setDataThrows
    THEN [x EXCEPT !.inProgress = finish(x.inProgress),
                   !.notice = Note(p, "Refresh failed")]
    ELSE [x EXCEPT !.inProgress = finish(x.inProgress),
                   !.notice = Note(p, IF a.failed > 0
                                      THEN "Environment refreshed: succeeded, failed"
                                      ELSE "Environment refreshed: variables injected")]

\* refreshCommand, the continuation of `await withProgress(...)`, lines 390-424:
\* the tree view is fed result.items, the outcome is shown, and the finally
\* block releases the guard. refresh.ts builds no `items`, so setData may throw
\* on it (setDataThrows), which the catch block turns into the error state.
refreshCommandDone(p, x, a, setDataThrows) ==
    IF setDataThrows
    THEN [x EXCEPT !.inProgress = finish(x.inProgress),
                   !.status = "error",
                   !.notice = Note(p, "Refresh failed")]
    ELSE [x EXCEPT !.inProgress = finish(x.inProgress),
                   !.status = "connected",
                   !.notice = Note(p, IF a.failed > 0
                                      THEN "Environment refreshed: succeeded, failed"
                                      ELSE "Environment refreshed: variables injected")]

\* write back what a segment of refreshCommand did
Commit(p, x, c) ==
    /\ inProgress' = x.inProgress
    /\ ui' = [status |-> x.status]
    /\ notice' = x.notice
    /\ cmd' = [cmd EXCEPT ![p] = c]

\* activate(), lines 50-120: the status bar shows connected and the 2 second
\* timer is armed exactly when endpoint and selected keys are configured
ExtInit ==
    /\ inProgress = FALSE
    /\ hist = <<>>
    /\ store = <<>>
    /\ prev = <<>>
    /\ app = <<>>
    /\ kv = <<>>
    /\ twin = <<>>
    /\ flow = <<>>
    /\ sb = <<>>
    /\ life = <<>>
    /\ wg = <<>>
    /\ env \in StaleEnvs \ {<<>>}
    /\ rf = [p \in Procs |-> IdleRefresh]
    /\ cmd = [p \in Triggers |-> IdleCmd]
    /\ isTrusted \in BOOLEAN
    /\ settings \in {NoSettings} \cup
            [endpoint : {Endpoint}, selectedKeys : ExtKeySeqs, label : {"dev"}]
    /\ ui = [status |-> IF Configured(settings) THEN "connected" ELSE "disconnected"]
    /\ notice = ""
    /\ autoRefreshTimeout = IF Configured(settings) THEN "pending" ELSE "undefined"

\* the azureEnv.refresh command, lines 73-80: cancel the pending auto-refresh,
\* then refreshCommand
Manual_Invoke(p) ==
    /\ p \in {"manual", "manual2"}
    /\ cmd[p].pc = "idle"
    /\ autoRefreshTimeout' = "undefined"
    /\ LET r == refreshCommandStart(p, ExtState, settings, isTrusted) IN
        Commit(p, r.x, r.c)
    /\ UNCHANGED <<pureVars, svcVars, hist, wg, env, rf, settings, isTrusted>>

\* the activation timer fires, lines 113-116
Timer_Fire ==
    /\ autoRefreshTimeout = "pending"
    /\ cmd["timer"].pc = "idle"
    /\ autoRefreshTimeout' = "undefined"
    /\ LET r == refreshCommandStart("timer", ExtState, settings, isTrusted) IN
        Commit("timer", r.x, r.c)
    /\ UNCHANGED <<pureVars, svcVars, hist, wg, env, rf, settings, isTrusted>>

\* the azureEnv.connect command up to `await runConnectFlow(...)`, lines 135-147
Connect_Invoke ==
    /\ cmd["connect"].pc = "idle"
    /\ IF ~isTrusted
       THEN /\ notice' = Note("connect", "Azure Env requires workspace trust")
            /\ UNCHANGED <<cmd, ui>>
       ELSE /\ ui' = [ui EXCEPT !.status = "connecting"]
            /\ cmd' = [cmd EXCEPT !["connect"].pc = "connectFlow"]
            /\ UNCHANGED notice
    /\ UNCHANGED <<inProgress, pureVars, svcVars, hist, wg, env, rf, settings, isTrusted, autoRefreshTimeout>>

\* mutant: the refresh after a successful connect is given the settings as they
\* were before the flow saved
Connect_FlowSettlesStaleSettings ==
    /\ cmd["connect"].pc = "connectFlow"
    /\ \/ \E keys \in ExtKeySeqs \ {<<>>} :
            LET st == [settings EXCEPT !.endpoint = Endpoint, !.selectedKeys = keys]
                x == [ExtState EXCEPT !.status = "connected",
                                      !.notice = Note("connect", "Connected")]
                r == refreshCommandStart("connect", x, settings, isTrusted)
            IN  /\ settings' = st
                /\ Commit("connect", r.x, r.c)
       \/ \E reason \in {"auth_failed", "cancelled"} :
            /\ ui' = [ui EXCEPT !.status = "disconnected"]
            /\ notice' = IF reason = "cancelled" THEN notice ELSE Note("connect", reason)
            /\ cmd' = [cmd EXCEPT !["connect"] = IdleCmd]
            /\ UNCHANGED <<inProgress, settings>>
       \/ /\ ui' = [ui EXCEPT !.status = "error"]
          /\ notice' = Note("connect", "Connection failed")
          /\ cmd' = [cmd EXCEPT !["connect"] = IdleCmd]
          /\ UNCHANGED <<inProgress, settings>>
    /\ UNCHANGED <<pureVars, svcVars, hist, wg, env, rf, isTrusted, autoRefreshTimeout>>

\* runConnectFlow settles, lines 163-186: on success (the flow has saved the
\* endpoint and the chosen keys) connected, then refreshCommand; on a refusal
\* disconnected; on a throw error
Connect_FlowSettles ==
    /\ cmd["connect"].pc = "connectFlow"
    /\ \/ \E keys \in ExtKeySeqs \ {<<>>} :
            LET st == [settings EXCEPT !.endpoint = Endpoint, !.selectedKeys = keys]
                x == [ExtState EXCEPT !.status = "connected",
                                      !.notice = Note("connect", "Connected")]
                r == refreshCommandStart("connect", x, st, isTrusted)
            IN  /\ settings' = st
                /\ Commit("connect", r.x, r.c)
       \/ \E reason \in {"auth_failed", "cancelled"} :
            /\ ui' = [ui EXCEPT !.status = "disconnected"]
            /\ notice' = IF reason = "cancelled" THEN notice ELSE Note("connect", reason)
            /\ cmd' = [cmd EXCEPT !["connect"] = IdleCmd]
            /\ UNCHANGED <<inProgress, settings>>
       \/ /\ ui' = [ui EXCEPT !.status = "error"]
          /\ notice' = Note("connect", "Connection failed")
          /\ cmd' = [cmd EXCEPT !["connect"] = IdleCmd]
          /\ UNCHANGED <<inProgress, settings>>
    /\ UNCHANGED <<pureVars, svcVars, hist, wg, env, rf, isTrusted, autoRefreshTimeout>>

\* the azureEnv.addConfig command up to its first await, lines 214-234
AddConfig_Invoke ==
    /\ cmd["addConfig"].pc = "idle"
    /\ IF ~isTrusted
       THEN /\ notice' = Note("addConfig", "Azure Env requires workspace trust")
            /\ UNCHANGED cmd
       ELSE IF ~Configured(settings)
       THEN /\ notice' = Note("addConfig", "No App Configuration configured")
            /\ UNCHANGED cmd
       ELSE /\ cmd' = [cmd EXCEPT !["addConfig"].pc = "addFlow"]
            /\ UNCHANGED notice
    /\ UNCHANGED <<inProgress, pureVars, svcVars, hist, wg, env, rf, ui, settings, isTrusted,
                   autoRefreshTimeout>>

\* the sign-in, the prompts and createSetting of the add-config flow settle,
\* lines 234-296 and addConfig.ts 29-70: either the flow stops (refused sign-in,
\* a dismissed prompt, a throw) or createSetting resolved and deps.refresh(),
\* that is refreshCommand, is called
AddConfig_FlowSettles ==
    /\ cmd["addConfig"].pc = "addFlow"
    /\ \/ LET r == refreshCommandStart("addConfig", ExtState, settings, isTrusted) IN
            Commit("addConfig", r.x, r.c)
       \/ \E msg \in {"cancelled", "Add Configuration Value failed"} :
            /\ notice' = IF msg = "cancelled" THEN notice ELSE Note("addConfig", msg)
            /\ cmd' = [cmd EXCEPT !["addConfig"] = IdleCmd]
            /\ UNCHANGED <<inProgress, ui>>
    /\ UNCHANGED <<pureVars, svcVars, hist, wg, env, rf, settings, isTrusted, autoRefreshTimeout>>

\* the await of refreshCommand on ensureSignedIn settles
RC_SignInSettles(p) ==
    /\ cmd[p].pc = "awaitSignIn"
    /\ \E answer \in {"true", "false", "throw"} :
        LET r == refreshCommandSignedIn(p, ExtState, cmd[p], answer) IN
        Commit(p, r.x, r.c)
    /\ UNCHANGED <<pureVars, svcVars, hist, wg, env, rf, settings, isTrusted, autoRefreshTimeout>>

\* the await of refreshCommand on getSubscriptions settles
RC_SubsSettles(p) ==
    /\ cmd[p].pc = "awaitSubs"
    /\ \E answer \in {"found", "empty", "notFound", "throw"} :
        LET r == refreshCommandSubs(p, ExtState, cmd[p], env, answer) IN
        /\ Commit(p, r.x, r.c)
        /\ rf' = [rf EXCEPT ![p] = r.a]
        /\ env' = r.env
    /\ UNCHANGED <<pureVars, svcVars, hist, wg, settings, isTrusted, autoRefreshTimeout>>

\* the pass of refreshCommand p has returned and its continuation runs
RC_Done(p) ==
    /\ cmd[p].pc = "refreshing"
    /\ rf[p].pc = "returned"
    /\ \E setDataThrows \in BOOLEAN :
        Commit(p, refreshCommandDone(p, ExtState, rf[p], setDataThrows), IdleCmd)
    /\ rf' = [rf EXCEPT ![p] = IdleRefresh]
    /\ UNCHANGED <<pureVars, svcVars, hist, wg, env, settings, isTrusted, autoRefreshTimeout>>

\* a step of the pass of refreshCommand p
RC_Pass(p) ==
    /\ cmd[p].pc = "refreshing"
    /\ \/ RE_SettingSettles(p)
       \/ RE_SecretSettles(p)
       \/ RE_Cancel(p)
    /\ UNCHANGED <<inProgress, hist, wg, extVars, pureVars, svcVars>>

Next ==
    \/ \E p \in {"manual", "manual2"} : Manual_Invoke(p)
    \/ Timer_Fire
    \/ Connect_Invoke
    \/ Connect_FlowSettles
    \/ AddConfig_Invoke
    \/ AddConfig_FlowSettles
    \/ \E p \in Triggers :
        \/ RC_SignInSettles(p)
        \/ RC_SubsSettles(p)
        \/ RC_Pass(p)
        \/ RC_Done(p)

Spec == ExtInit /\ [][Next]_vars

-----------------------------------------------------------------------------
(* FairSpec: the refresh command and the activation timer, when every call *)
(* a refreshCommand awaits eventually settles                               *)

\* the triggers that call refreshCommand directly
RefreshTriggers == {"manual", "manual2", "timer"}

\* an await of the pass of refreshCommand p settles
RC_PassSettles(p) ==
    /\ cmd[p].pc = "refreshing"
    /\ \/ RE_SettingSettles(p)
       \/ RE_SecretSettles(p)
    /\ UNCHANGED <<inProgress, hist, wg, extVars, pureVars, svcVars>>

\* the call refreshCommand p awaits settles and its continuation runs
RC_Continues(p) ==
    \/ RC_SignInSettles(p)
    \/ RC_SubsSettles(p)
    \/ RC_PassSettles(p)
    \/ RC_Done(p)

FairNext ==
    \/ \E p \in {"manual", "manual2"} : Manual_Invoke(p)
    \/ Timer_Fire
    \/ \E p \in RefreshTriggers :
        \/ RC_SignInSettles(p)
        \/ RC_SubsSettles(p)
        \/ RC_Pass(p)
        \/ RC_Done(p)

FairSpec ==
    /\ ExtInit
    /\ [][FairNext]_vars
    /\ \A p \in RefreshTriggers : WF_vars(RC_Continues(p))

-----------------------------------------------------------------------------
(* FunctionSpec: the functions of models/configValue.ts applied to inputs  *)

\* the characters keys are made of, and the keys given to transformKeyToEnvVar
KeyChars == {"a", "b", "A", "/"}
KeyStrings == UNION {[1..n -> KeyChars] : n \in 0..MaxKeyLen}

\* the tokens content types are made of, and the content types given to
\* isKeyVaultReference: absent, the one of a reference, and every sequence of
\* at most MaxTokens tokens
ContentTokens ==
    {"keyvaultref", "keyvault", "ref", "KeyVaultRef", "text/plain", "+json",
     ";charset=utf-8", "application/vnd.microsoft.appconfig."}
ContentTypes ==
    {UndefinedCT, KeyVaultRefCT} \cup
    UNION {[1..n -> ContentTokens] : n \in 0..MaxTokens}

\* the URI with the given path segments
RECURSIVE PathOf(_)
PathOf(segs) ==
    IF segs = <<>> THEN <<>>
    ELSE IF Head(segs) = "" THEN <<"/">> \o PathOf(Tail(segs))
    ELSE <<"/", Head(segs)>> \o PathOf(Tail(segs))

UriOf(segs) == <<"https:", "//", VaultHost>> \o PathOf(segs)

\* the path segments used, and the strings given to parseKeyVaultSecretUri:
\* strings that are no URL, and the URIs of every path of at most MaxSegs
\* segments
Segments == {"secrets", "keys", "MySecret", "abc123", ""}
SegSeqs == UNION {[1..n -> Segments] : n \in 0..MaxSegs}
Uris == {<<>>, <<"not-a-url">>, <<"//", VaultHost, "/", "secrets", "/", "MySecret">>}
        \cup {UriOf(segs) : segs \in SegSeqs}

\* no function has been applied yet
NoApp == [fn |-> "none", arg |-> <<>>, out |-> <<>>]

FunctionInit ==
    /\ inProgress = FALSE
    /\ hist = <<>>
    /\ store = <<>>
    /\ prev = <<>>
    /\ app = NoApp
    /\ kv = <<>>
    /\ twin = <<>>
    /\ flow = <<>>
    /\ sb = <<>>
    /\ life = <<>>
    /\ wg = <<>>
    /\ env = <<>>
    /\ rf = <<>>
    /\ cmd = <<>>
    /\ ui = <<>>
    /\ notice = <<>>
    /\ settings = <<>>
    /\ isTrusted = TRUE
    /\ autoRefreshTimeout = "undefined"

Apply_transformKeyToEnvVar ==
    /\ app = NoApp
    /\ \E key \in KeyStrings :
        app' = [fn |-> "transformKeyToEnvVar", arg |-> key,
                out |-> Returned(transformKeyToEnvVar(key))]
    /\ UNCHANGED <<inProgress, hist, wg, env, rf, extVars, store, prev, svcVars>>

Apply_isKeyVaultReference ==
    /\ app = NoApp
    /\ \E contentType \in ContentTypes :
        app' = [fn |-> "isKeyVaultReference", arg |-> contentType,
                out |-> Returned(isKeyVaultReference(contentType))]
    /\ UNCHANGED <<inProgress, hist, wg, env, rf, extVars, store, prev, svcVars>>

Apply_parseKeyVaultSecretUri ==
    /\ app = NoApp
    /\ \E uri \in Uris :
        app' = [fn |-> "parseKeyVaultSecretUri", arg |-> uri,
                out |-> parseKeyVaultSecretUri(uri)]
    /\ UNCHANGED <<inProgress, hist, wg, env, rf, extVars, store, prev, svcVars>>

FunctionNext ==
    \/ Apply_transformKeyToEnvVar
    \/ Apply_isKeyVaultReference
    \/ Apply_parseKeyVaultSecretUri

FunctionSpec == FunctionInit /\ [][FunctionNext]_vars

-----------------------------------------------------------------------------
(* ErrorSpec: the store clients on the failures of the SDK, and the        *)
(* retryability of the typed errors                                        *)

\* what getConfigurationSetting and getSecret may settle with
SdkSettingOutcomes ==
    {SdkOk(Setting("v1", PlainCT))} \cup {SdkFail(e) : e \in SdkErrors}
SdkSecretOutcomes ==
    {SdkOk("s3cret"), SdkOk(Undefined)} \cup {SdkFail(e) : e \in SdkErrors}

\* the secret URIs given to resolveSecret: one that parses, two that do not
SecretUris ==
    {UriOf(<<"secrets", "MySecret">>), UriOf(<<"keys", "MyKey">>), <<"not-a-url">>}

\* the typed errors that can be constructed
ErrorObjects ==
    {AppConfigError(k, l, c) : k \in Keys, l \in Labels, c \in SdkErrors \cup {NoCause}}
    \cup {KeyVaultError(u, c) : u \in SecretUris, c \in SdkErrors \cup {NoCause}}
    \cup {RateLimitError(sv, r, c) : sv \in {"AppConfig", "KeyVault"},
                                    r \in {NoNumber, Number(30000)},
                                    c \in SdkErrors \cup {NoCause}}
    \cup {KeyVaultReferenceError(v, r) : v \in {BadJson, NoUriJson},
                                        r \in {"invalid_json", "missing_uri", "invalid_uri"}}
    \cup {ValidationError(f) : f \in {"endpoint", "selectedKeys"}}

Apply_getSetting ==
    /\ app = NoApp
    /\ \E key \in Keys, label \in Labels, sdk \in SdkSettingOutcomes :
        app' = [fn |-> "getSetting", arg |-> <<key, label, sdk>>,
                out |-> getSetting(key, label, sdk)]
    /\ UNCHANGED <<inProgress, hist, wg, env, rf, extVars, store, prev, svcVars>>

Apply_resolveSecret ==
    /\ app = NoApp
    /\ \E uri \in SecretUris, sdk \in SdkSecretOutcomes :
        app' = [fn |-> "resolveSecret", arg |-> <<uri, sdk>>,
                out |-> resolveSecret(uri, sdk)]
    /\ UNCHANGED <<inProgress, hist, wg, env, rf, extVars, store, prev, svcVars>>

Apply_isRetryable ==
    /\ app = NoApp
    /\ \E error \in ErrorObjects :
        app' = [fn |-> "isRetryable", arg |-> error,
                out |-> Returned(isRetryable(error))]
    /\ UNCHANGED <<inProgress, hist, wg, env, rf, extVars, store, prev, svcVars>>

ErrorNext ==
    \/ Apply_getSetting
    \/ Apply_resolveSecret
    \/ Apply_isRetryable

ErrorSpec == FunctionInit /\ [][ErrorNext]_vars

-----------------------------------------------------------------------------
(* KeyVaultSpec: resolveSecret and resolveSecrets called, in any order and  *)
(* overlapping, on one KeyVaultService (services/keyVaultService.ts)        *)

\* number of resolveSecret calls made on the service
MaxResolves == 3

\* the vaults, and the secret URIs given to the service: two secrets in each
\* vault, a URI that names no secret, and a string that is no URL
VaultHosts == {"vault1.vault.azure.net", "vault2.vault.azure.net"}
SecretNames == {"Secret1", "Secret2"}
VaultUris ==
    {<<"https:", "//", h>> \o PathOf(<<"secrets", n>>) : h \in VaultHosts, n \in SecretNames}
    \cup {UriOf(<<"keys", "MyKey">>), <<"not-a-url">>}

\* what client.getSecret settles with
GetSecretOutcomes ==
    {SdkOk("s3cret"), SdkFail(RestError(404, Undefined)), SdkFail(RestError(429, "30"))}

\* no SecretClient
NoClient == 0

\* a service just constructed: clients is the Map of vault URL to client; a
\* client is identified by its rank among the SecretClients constructed, which
\* created lists by the vault URL given to the constructor; calls are the
\* activations of resolveSecret in the order of the calls
NewKeyVaultService == [clients |-> <<>>, created |-> <<>>, calls |-> <<>>]

\* getClient that constructs a client at every call
getClientNoCache(s, vaultUrl) ==
    LET client == Len(s.created) + 1 IN
    [svc |-> [s EXCEPT !.created = Append(@, vaultUrl),
                       !.clients = [u \in DOMAIN @ \cup {vaultUrl} |->
                                        IF u = vaultUrl THEN client ELSE @[u]]],
     client |-> client]

\* KeyVaultService.getClient: the service after the call, and the client
getClient(s, vaultUrl) ==
    IF vaultUrl \in DOMAIN s.clients
    THEN [svc |-> s, client |-> s.clients[vaultUrl]]
    ELSE LET client == Len(s.created) + 1 IN
         [svc |-> [s EXCEPT !.created = Append(@, vaultUrl),
                            !.clients = [u \in DOMAIN @ \cup {vaultUrl} |->
                                             IF u = vaultUrl THEN client ELSE @[u]]],
          client |-> client]

\* whether a fetch on the client has ended with an error
FetchFailedOn(s, client) ==
    \E i \in DOMAIN s.calls :
        /\ s.calls[i].client = client
        /\ s.calls[i].pc = "settled"
        /\ s.calls[i].result.threw

\* resolveSecret up to its await: the uri is parsed and, if it parses, the
\* client is looked up and getSecret is called on it; an error thrown by the
\* parser goes through the catch block and rejects the call
resolveSecretCall(s, uri) ==
    LET parsed == parseKeyVaultSecretUri(uri) IN
    IF parsed.threw
    THEN [s EXCEPT !.calls = Append(@,
            [uri |-> uri, client |-> NoClient, pc |-> "settled",
             afterFailure |-> FALSE,
             result |-> Threw(resolveSecretCatch(uri, parsed.error))])]
    ELSE LET got == getClient(s, parsed.value.vaultUrl) IN
         [got.svc EXCEPT !.calls = Append(@,
            [uri |-> uri, client |-> got.client, pc |-> "getSecret",
             afterFailure |-> FetchFailedOn(s, got.client),
             result |-> Returned(Undefined)])]

\* resolveSecrets: uris.map calls resolveSecret on each uri in turn, and each
\* call runs up to its await before the next is made
RECURSIVE resolveSecretsCall(_, _)
resolveSecretsCall(s, uris) ==
    IF uris = <<>> THEN s
    ELSE resolveSecretsCall(resolveSecretCall(s, Head(uris)), Tail(uris))

KeyVaultInit ==
    /\ inProgress = FALSE
    /\ hist = <<>>
    /\ store = <<>>
    /\ prev = <<>>
    /\ app = <<>>
    /\ kv = NewKeyVaultService
    /\ twin = <<>>
    /\ flow = <<>>
    /\ sb = <<>>
    /\ life = <<>>
    /\ wg = <<>>
    /\ env = <<>>
    /\ rf = <<>>
    /\ cmd = <<>>
    /\ ui = <<>>
    /\ notice = <<>>
    /\ settings = <<>>
    /\ isTrusted = TRUE
    /\ autoRefreshTimeout = "undefined"

kvFrame == <<inProgress, hist, wg, env, rf, extVars, pureVars, twin, flow, sb, life>>

\* a caller calls resolveSecret(uri)
KV_ResolveSecret ==
    /\ Len(kv.calls) < MaxResolves
    /\ \E uri \in VaultUris : kv' = resolveSecretCall(kv, uri)
    /\ UNCHANGED kvFrame

\* a caller calls resolveSecrets with two uris
KV_ResolveSecrets ==
    /\ Len(kv.calls) + 2 <= MaxResolves
    /\ \E u1, u2 \in VaultUris : kv' = resolveSecretsCall(kv, <<u1, u2>>)
    /\ UNCHANGED kvFrame

\* getSecret settles and the resolveSecret call that awaits it continues
KV_GetSecretSettles ==
    /\ \E i \in DOMAIN kv.calls, sdk \in GetSecretOutcomes :
        /\ kv.calls[i].pc = "getSecret"
        /\ kv' = [kv EXCEPT !.calls[i].pc = "settled",
                            !.calls[i].result = resolveSecret(kv.calls[i].uri, sdk)]
    /\ UNCHANGED kvFrame

KeyVaultNext ==
    \/ KV_ResolveSecret
    \/ KV_ResolveSecrets
    \/ KV_GetSecretSettles

KeyVaultSpec == KeyVaultInit /\ [][KeyVaultNext]_vars

-----------------------------------------------------------------------------
(* TwinSpec: two runs of refreshCommand side by side, from withProgress on.  *)
(* Both runs are given the same settings and the same answers by every      *)
(* collaborator, except that where resolveSecret resolves, the secret it    *)
(* returns may differ between the runs.                                     *)

\* the secrets resolveSecret may return
TwinSecrets == {"s3cret", "hunter2"}

\* extractStoreName(settings.endpoint) for Endpoint
StoreName == "mystore"

\* error.message of the errors a pass collects: its variable parts
ErrorMessage(error) == error.detail

\* String(error): the name of the error and its message
ErrorString(error) == <<error.kind, ": ">> \o error.detail

\* what setData(undefined) throws
SetDataError == Err("TypeError", <<"entries is not iterable">>)

\* what a run of refreshCommand shows: the lines appended to the output
\* channel, the notification, and the state and detail of the status bar.
\* A text is the sequence of the pieces it is concatenated from.
Shown(log, notification, state, detail) ==
    [log |-> log, notification |-> notification, state |-> state, detail |-> detail]

NothingShown == Shown(<<>>, <<>>, "refreshing", <<>>)

\* result.errors.map((e) => e.key)
RECURSIVE ErrorKeys(_)
ErrorKeys(errors) ==
    IF errors = <<>> THEN <<>> ELSE <<Head(errors).key>> \o ErrorKeys(Tail(errors))

\* the pairs name=value of the variables injected by a pass
RECURSIVE InjectedLines(_)
InjectedLines(calls) ==
    IF calls = <<>> THEN <<>>
    ELSE IF Head(calls).op = "replace"
    THEN << <<"  ", Head(calls).a, "=", Head(calls).b>> >> \o InjectedLines(Tail(calls))
    ELSE InjectedLines(Tail(calls))

\* mutant: the injected variables are logged with their values
refreshCommandReportLogsValues(a, storeName, setDataThrows) ==
    IF setDataThrows
    THEN Shown(<< <<"[ERROR] Refresh failed: ">> \o ErrorString(SetDataError),
                  <<"stack">> >>,
               <<"Refresh failed: ">> \o ErrorString(SetDataError), "error", <<>>)
    ELSE IF a.failed > 0
    THEN Shown(InjectedLines(a.calls)
               \o << <<"Failed to resolve: ">> \o ErrorKeys(a.errors) >>
               \o [i \in 1..Len(a.errors) |->
                      <<"  ", a.errors[i].key, ": ">> \o ErrorMessage(a.errors[i].error)],
               <<"Environment refreshed: ", a.succeeded, " succeeded, ", a.failed, " failed">>,
               "connected", <<storeName, " (", a.failed, " errors)">>)
    ELSE Shown(InjectedLines(a.calls),
               <<"Environment refreshed: ", a.succeeded, " variables injected">>,
               "connected", <<storeName, " (", a.succeeded, " vars)">>)

\* refreshCommand, the continuation of `await withProgress(...)`, lines 390-421,
\* as what it shows: setData throwing leads to the catch block, which logs the
\* error and its stack; else failures are logged by key and message, and the
\* counts go to the notification and the status bar
refreshCommandReport(a, storeName, setDataThrows) ==
    IF setDataThrows
    THEN Shown(<< <<"[ERROR] Refresh failed: ">> \o ErrorString(SetDataError),
                  <<"stack">> >>,
               <<"Refresh failed: ">> \o ErrorString(SetDataError), "error", <<>>)
    ELSE IF a.failed > 0
    THEN Shown(<< <<"Failed to resolve: ">> \o ErrorKeys(a.errors) >>
               \o [i \in 1..Len(a.errors) |->
                      <<"  ", a.errors[i].key, ": ">> \o ErrorMessage(a.errors[i].error)],
               <<"Environment refreshed: ", a.succeeded, " succeeded, ", a.failed, " failed">>,
               "connected", <<storeName, " (", a.failed, " errors)">>)
    ELSE Shown(<<>>,
               <<"Environment refreshed: ", a.succeeded, " variables injected">>,
               "connected", <<storeName, " (", a.succeeded, " vars)">>)

\* the two runs: pc is idle | refreshing | done; a, e and out are the pass,
\* the collection and what is shown, of the first and of the second run
TwinInit ==
    /\ inProgress = FALSE
    /\ hist = <<>>
    /\ store = <<>>
    /\ prev = <<>>
    /\ app = <<>>
    /\ kv = <<>>
    /\ twin = [pc |-> "idle", a |-> <<IdleRefresh, IdleRefresh>>,
               e |-> <<<<>>, <<>>>>, out |-> <<NothingShown, NothingShown>>]
    /\ flow = <<>>
    /\ sb = <<>>
    /\ life = <<>>
    /\ wg = <<>>
    /\ env = <<>>
    /\ rf = <<>>
    /\ cmd = <<>>
    /\ ui = <<>>
    /\ notice = <<>>
    /\ settings = <<>>
    /\ isTrusted = TRUE
    /\ autoRefreshTimeout = "undefined"

twinFrame == <<inProgress, hist, wg, env, rf, extVars, pureVars, kv, flow, sb, life>>

\* both runs reach withProgress with the same settings
Twin_Pass ==
    /\ twin.pc = "idle"
    /\ \E keys \in KeySeqs, e \in StaleEnvs :
        LET r == refreshEnvironmentEnter(keys, "dev", "live", e) IN
        twin' = [twin EXCEPT !.pc = "refreshing", !.a = <<r.a, r.a>>,
                             !.e = <<r.env, r.env>>]
    /\ UNCHANGED twinFrame

\* getSetting settles, in both runs alike
Twin_SettingSettles ==
    /\ twin.pc = "refreshing"
    /\ twin.a[1].pc = "awaitSetting" /\ twin.a[2].pc = "awaitSetting"
    /\ \E answer \in GetSettingAnswers(twin.a[1].keys[twin.a[1].i], twin.a[1].label) :
        LET r1 == reSettingSettles(twin.a[1], twin.e[1], answer)
            r2 == reSettingSettles(twin.a[2], twin.e[2], answer)
        IN twin' = [twin EXCEPT !.a = <<r1.a, r2.a>>, !.e = <<r1.env, r2.env>>]
    /\ UNCHANGED twinFrame

\* resolveSecret rejects, in both runs alike
Twin_SecretRejects ==
    /\ twin.pc = "refreshing"
    /\ twin.a[1].pc = "awaitSecret" /\ twin.a[2].pc = "awaitSecret"
    /\ \E answer \in ResolveSecretAnswers(twin.a[1].calls[Len(twin.a[1].calls)].a) :
        /\ ~answer.ok
        /\ LET r1 == reSecretSettles(twin.a[1], twin.e[1], answer)
               r2 == reSecretSettles(twin.a[2], twin.e[2], answer)
           IN twin' = [twin EXCEPT !.a = <<r1.a, r2.a>>, !.e = <<r1.env, r2.env>>]
    /\ UNCHANGED twinFrame

\* resolveSecret resolves in both runs, with a secret of its own in each
Twin_SecretResolves ==
    /\ twin.pc = "refreshing"
    /\ twin.a[1].pc = "awaitSecret" /\ twin.a[2].pc = "awaitSecret"
    /\ \E s1, s2 \in TwinSecrets :
        LET r1 == reSecretSettles(twin.a[1], twin.e[1],
                                  [ok |-> TRUE, value |-> s1, error |-> NoError])
            r2 == reSecretSettles(twin.a[2], twin.e[2],
                                  [ok |-> TRUE, value |-> s2, error |-> NoError])
        IN twin' = [twin EXCEPT !.a = <<r1.a, r2.a>>, !.e = <<r1.env, r2.env>>]
    /\ UNCHANGED twinFrame

\* cancellation is requested, in both runs alike
Twin_Cancel ==
    /\ twin.pc = "refreshing"
    /\ \A n \in 1..2 : /\ twin.a[n].pc \in {"awaitSetting", "awaitSecret"}
                       /\ twin.a[n].cancel = "live"
    /\ twin' = [twin EXCEPT !.a[1].cancel = "requested", !.a[2].cancel = "requested"]
    /\ UNCHANGED twinFrame

\* withProgress settles in both runs, and each shows its result
Twin_Done ==
    /\ twin.pc = "refreshing"
    /\ twin.a[1].pc = "returned" /\ twin.a[2].pc = "returned"
    /\ \E setDataThrows \in BOOLEAN :
        twin' = [twin EXCEPT !.pc = "done",
                    !.out = <<refreshCommandReport(twin.a[1], StoreName, setDataThrows),
                              refreshCommandReport(twin.a[2], StoreName, setDataThrows)>>]
    /\ UNCHANGED twinFrame

TwinNext ==
    \/ Twin_Pass
    \/ Twin_SettingSettles
    \/ Twin_SecretRejects
    \/ Twin_SecretResolves
    \/ Twin_Cancel
    \/ Twin_Done

TwinSpec == TwinInit /\ [][TwinNext]_vars

-----------------------------------------------------------------------------
(* ConnectSpec: one run of runConnectFlow (commands/connect.ts) against     *)
(* collaborators that may answer anything                                   *)

\* the most subscriptions, stores or keys a listing returns
MaxItems == 2

\* the listings: subscriptions, the stores of a subscription, the keys of a
\* store
Subscription(n) == [name |-> <<"sub", n>>, subscriptionId |-> <<"id", n>>]
StoreInfo(sub, n) ==
    [name |-> <<"store", sub.subscriptionId, n>>,
     endpoint |-> <<"https://", "store", sub.subscriptionId, n, ".azconfig.io">>]
KeyInfo(n) == [key |-> <<"key", n>>]

\* no item picked yet
NoItem == [name |-> <<>>]

\* ConnectResult, and the flow not yet returned or rejected
Pending == [kind |-> "pending", endpoint |-> <<>>, storeName |-> <<>>, reason |-> ""]
Success(endpoint, storeName) ==
    [kind |-> "success", endpoint |-> endpoint, storeName |-> storeName, reason |-> ""]
Failure(reason) ==
    [kind |-> "failure", endpoint |-> <<>>, storeName |-> <<>>, reason |-> reason]
FlowRejected == [kind |-> "rejected", endpoint |-> <<>>, storeName |-> <<>>, reason |-> ""]

\* what an awaited call gave: the step, whether a picker was dismissed, and
\* whether the answer was negative (not signed in, an empty listing, an empty
\* selection)
Answer(step, dismissed, negative) ==
    [step |-> step, dismissed |-> dismissed, negative |-> negative]

\* an activation of runConnectFlow:
\*   pc       the call awaited: ensureSignedIn | getSubscriptions | pickSub |
\*            listStores | pickStore | listKeys | pickKeys | saveSettings, or
\*            settled
\*   offered  the items of the listing last received
\*   sub, store   the subscription and the store picked
\*   saved    the arguments of the saveSettings calls made
\*   answers  what the awaited calls gave, in order
\*   ret      the ConnectResult
runConnectFlowCall ==
    [pc |-> "ensureSignedIn", offered |-> <<>>, sub |-> NoItem, store |-> NoItem,
     saved |-> <<>>, answers |-> <<>>, ret |-> Pending]

\* return { success: false, reason }
cfReturn(f, reason) == [f EXCEPT !.pc = "settled", !.ret = Failure(reason)]

\* an awaited call rejects: nothing catches it, so the flow rejects
cfRejects(f) == [f EXCEPT !.pc = "settled", !.ret = FlowRejected]

\* selectedKeys.map((k) => k.key)
SelectedKeyNames(offered, picked) ==
    LET RECURSIVE From(_)
        From(n) == IF n > Len(offered) THEN <<>>
                   ELSE IF n \in picked THEN <<offered[n].key>> \o From(n + 1)
                   ELSE From(n + 1)
    IN From(1)

\* lines 171-177: after await ensureSignedIn()
cfSignedIn(f, isSignedIn) ==
    LET g == [f EXCEPT !.answers = Append(@, Answer("ensureSignedIn", FALSE, ~isSignedIn))] IN
    IF ~isSignedIn THEN cfReturn(g, "auth_failed")
    ELSE [g EXCEPT !.pc = "getSubscriptions"]

\* lines 177-190: after await getSubscriptions()
cfSubscriptions(f, subscriptions) ==
    LET g == [f EXCEPT !.answers = Append(@, Answer("getSubscriptions", FALSE,
                                                     Len(subscriptions) = 0))] IN
    IF Len(subscriptions) = 0 THEN cfReturn(g, "no_subscriptions")
    ELSE [g EXCEPT !.pc = "pickSub", !.offered = subscriptions]

\* lines 188-200: after await showQuickPickSingle(subItems); n = 0 when the
\* picker was dismissed, else the rank of the item picked
cfSubPicked(f, n) ==
    LET g == [f EXCEPT !.answers = Append(@, Answer("pickSub", n = 0, FALSE))] IN
    IF n = 0 THEN cfReturn(g, "cancelled")
    ELSE [g EXCEPT !.pc = "listStores", !.sub = f.offered[n]]

\* lines 197-215: after await listStores(...)
cfStores(f, stores) ==
    LET g == [f EXCEPT !.answers = Append(@, Answer("listStores", FALSE, Len(stores) = 0))] IN
    IF Len(stores) = 0 THEN cfReturn(g, "no_stores")
    ELSE [g EXCEPT !.pc = "pickStore", !.offered = stores]

\* lines 213-222: after await showQuickPickSingle(storeItems)
cfStorePicked(f, n) ==
    LET g == [f EXCEPT !.answers = Append(@, Answer("pickStore", n = 0, FALSE))] IN
    IF n = 0 THEN cfReturn(g, "cancelled")
    ELSE [g EXCEPT !.pc = "listKeys", !.store = f.offered[n]]

\* lines 222-235: after await listKeys(...)
cfKeys(f, keys) ==
    LET g == [f EXCEPT !.answers = Append(@, Answer("listKeys", FALSE, Len(keys) = 0))] IN
    IF Len(keys) = 0 THEN cfReturn(g, "no_keys")
    ELSE [g EXCEPT !.pc = "pickKeys", !.offered = keys]

\* mutant: the selection is saved before it is looked at
cfKeysPickedSaveFirst(f, dismissed, picked) ==
    LET g == [f EXCEPT !.answers = Append(@, Answer("pickKeys", dismissed, picked = {}))] IN
    [g EXCEPT !.pc = "saveSettings",
              !.saved = Append(@, [endpoint |-> f.store.endpoint,
                                   selectedKeys |-> SelectedKeyNames(f.offered, picked)])]

\* lines 233-249: after await showQuickPickMulti(keyItems): picked is the set
\* of the ranks of the items selected
cfKeysPicked(f, dismissed, picked) ==
    LET g == [f EXCEPT !.answers = Append(@, Answer("pickKeys", dismissed,
                                                     ~dismissed /\ picked = {}))] IN
    IF dismissed THEN cfReturn(g, "cancelled")
    ELSE IF picked = {} THEN cfReturn(g, "no_keys_selected")
    ELSE [g EXCEPT !.pc = "saveSettings",
                   !.saved = Append(@, [endpoint |-> f.store.endpoint,
                                        selectedKeys |-> SelectedKeyNames(f.offered, picked)])]

\* lines 246-255: after await saveSettings(...)
cfSaved(f) ==
    [f EXCEPT !.pc = "settled",
              !.answers = Append(@, Answer("saveSettings", FALSE, FALSE)),
              !.ret = Success(f.store.endpoint, f.store.name)]

ConnectInit ==
    /\ inProgress = FALSE
    /\ hist = <<>>
    /\ store = <<>>
    /\ prev = <<>>
    /\ app = <<>>
    /\ kv = <<>>
    /\ twin = <<>>
    /\ flow = runConnectFlowCall
    /\ sb = <<>>
    /\ life = <<>>
    /\ wg = <<>>
    /\ env = <<>>
    /\ rf = <<>>
    /\ cmd = <<>>
    /\ ui = <<>>
    /\ notice = <<>>
    /\ settings = <<>>
    /\ isTrusted = TRUE
    /\ autoRefreshTimeout = "undefined"

flowFrame == <<inProgress, hist, wg, env, rf, extVars, pureVars, kv, twin, sb, life>>

\* the ranks 1..n as a listing made by Item
Listing(n, Item(_)) == [k \in 1..n |-> Item(k)]

CF_SignInSettles ==
    /\ flow.pc = "ensureSignedIn"
    /\ \E isSignedIn \in BOOLEAN : flow' = cfSignedIn(flow, isSignedIn)
    /\ UNCHANGED flowFrame

CF_SubscriptionsSettle ==
    /\ flow.pc = "getSubscriptions"
    /\ \E n \in 0..MaxItems : flow' = cfSubscriptions(flow, Listing(n, Subscription))
    /\ UNCHANGED flowFrame

CF_SubPicked ==
    /\ flow.pc = "pickSub"
    /\ \E n \in 0..Len(flow.offered) : flow' = cfSubPicked(flow, n)
    /\ UNCHANGED flowFrame

CF_StoresSettle ==
    /\ flow.pc = "listStores"
    /\ \E n \in 0..MaxItems :
        flow' = cfStores(flow, [k \in 1..n |-> StoreInfo(flow.sub, k)])
    /\ UNCHANGED flowFrame

CF_StorePicked ==
    /\ flow.pc = "pickStore"
    /\ \E n \in 0..Len(flow.offered) : flow' = cfStorePicked(flow, n)
    /\ UNCHANGED flowFrame

CF_KeysSettle ==
    /\ flow.pc = "listKeys"
    /\ \E n \in 0..MaxItems : flow' = cfKeys(flow, Listing(n, KeyInfo))
    /\ UNCHANGED flowFrame

CF_KeysPicked ==
    /\ flow.pc = "pickKeys"
    /\ \/ flow' = cfKeysPicked(flow, TRUE, {})
       \/ \E picked \in SUBSET (1..Len(flow.offered)) :
            flow' = cfKeysPicked(flow, FALSE, picked)
    /\ UNCHANGED flowFrame

CF_SaveSettles ==
    /\ flow.pc = "saveSettings"
    /\ flow' = cfSaved(flow)
    /\ UNCHANGED flowFrame

\* the call the flow awaits rejects
CF_Rejects ==
    /\ flow.pc # "settled"
    /\ flow' = cfRejects(flow)
    /\ UNCHANGED flowFrame

ConnectNext ==
    \/ CF_SignInSettles
    \/ CF_SubscriptionsSettle
    \/ CF_SubPicked
    \/ CF_StoresSettle
    \/ CF_StorePicked
    \/ CF_KeysSettle
    \/ CF_KeysPicked
    \/ CF_SaveSettles
    \/ CF_Rejects

ConnectSpec == ConnectInit /\ [][ConnectNext]_vars

-----------------------------------------------------------------------------
(* AddConfigSpec: one run of runAddConfigFlow (commands/addConfig.ts)       *)

\* what showInputBox resolves with: undefined when dismissed, else the text,
\* which may be empty
InputAnswers == {Undefined, "", "App/NewKey"}

\* what getExistingPrefixes resolves with
PrefixLists ==
    {<<>>, <<"App/">>, <<"App/", "Service/">>, <<"App/", "Service/", "Db/", "Cache/">>}

\* prefixes.slice(0, 3)
Slice3(prefixes) == SubSeq(prefixes, 1, IF Len(prefixes) < 3 THEN Len(prefixes) ELSE 3)

\* no placeHolder
NoHint == <<Undefined>>

\* AddConfigResult, and the flow not yet returned or rejected
AddPending == [kind |-> "pending", key |-> Undefined, reason |-> ""]
Added(key) == [kind |-> "success", key |-> key, reason |-> ""]
AddCancelled == [kind |-> "failure", key |-> Undefined, reason |-> "cancelled"]
AddRejected == [kind |-> "rejected", key |-> Undefined, reason |-> ""]

\* a call made on, or a settlement received from, createSetting and refresh
Event(what, args) == [what |-> what, args |-> args]

\* an activation of runAddConfigFlow:
\*   pc       the call awaited: getExistingPrefixes | keyInput | valueInput |
\*            labelPick | createSetting | refresh, or settled
\*   configuredLabel   what getLabel() returns
\*   hint     the placeHolder of the key prompt (prefixHint)
\*   key, value        the local constants
\*   prompts  for each prompt settled so far, whether it was answered
\*   events   the calls of createSetting and refresh and their settlements
\*   ret      the AddConfigResult
runAddConfigFlowCall(configuredLabel) ==
    [pc |-> "getExistingPrefixes", configuredLabel |-> configuredLabel,
     hint |-> NoHint, key |-> Undefined, value |-> Undefined, prompts |-> <<>>,
     events |-> <<>>, ret |-> AddPending]

\* return { success: false, reason: 'cancelled' }
afCancelled(f) == [f EXCEPT !.pc = "settled", !.ret = AddCancelled]

\* an awaited call rejects: nothing catches it, so the flow rejects
afRejects(f) == [f EXCEPT !.pc = "settled", !.ret = AddRejected]

\* lines 30-36: after await getExistingPrefixes(), the key prompt is shown
afPrefixes(f, prefixes) ==
    [f EXCEPT !.pc = "keyInput",
              !.hint = IF Len(prefixes) > 0
                       THEN <<"Existing prefixes: ">> \o Slice3(prefixes)
                       ELSE NoHint]

\* lines 33-44: after await showInputBox (key)
afKey(f, key) ==
    LET g == [f EXCEPT !.prompts = Append(@, key # Undefined)] IN
    IF key = Undefined THEN afCancelled(g)
    ELSE [g EXCEPT !.pc = "valueInput", !.key = key]

\* lines 42-60: after await showInputBox (value)
afValue(f, value) ==
    LET g == [f EXCEPT !.prompts = Append(@, value # Undefined)] IN
    IF value = Undefined THEN afCancelled(g)
    ELSE [g EXCEPT !.pc = "labelPick", !.value = value]

\* mutant: createSetting and refresh are started together
afLabelNoAwait(f, dismissed) ==
    LET g == [f EXCEPT !.prompts = Append(@, ~dismissed)] IN
    IF dismissed THEN afCancelled(g)
    ELSE [g EXCEPT !.pc = "createSetting",
                   !.events = @ \o <<Event("createSetting",
                                           <<f.key, f.value, f.configuredLabel>>),
                                     Event("refresh", <<>>)>>]

\* lines 58-66: after await showQuickPickSingle(labelItems): the only item
\* offered carries the configured label
afLabel(f, dismissed) ==
    LET g == [f EXCEPT !.prompts = Append(@, ~dismissed)] IN
    IF dismissed THEN afCancelled(g)
    ELSE [g EXCEPT !.pc = "createSetting",
                   !.events = Append(@, Event("createSetting",
                                              <<f.key, f.value, f.configuredLabel>>))]

\* lines 66-67: after await createSetting(...)
afCreated(f, resolved) ==
    IF resolved
    THEN [f EXCEPT !.pc = "refresh",
                   !.events = @ \o <<Event("createSetting.resolved", <<>>),
                                     Event("refresh", <<>>)>>]
    ELSE afRejects([f EXCEPT !.events = Append(@, Event("createSetting.rejected", <<>>))])

\* lines 67-69: after await refresh()
afRefreshed(f, resolved) ==
    IF resolved
    THEN [f EXCEPT !.pc = "settled",
                   !.events = Append(@, Event("refresh.resolved", <<>>)),
                   !.ret = Added(f.key)]
    ELSE afRejects([f EXCEPT !.events = Append(@, Event("refresh.rejected", <<>>))])

AddConfigInit ==
    /\ inProgress = FALSE
    /\ hist = <<>>
    /\ store = <<>>
    /\ prev = <<>>
    /\ app = <<>>
    /\ kv = <<>>
    /\ twin = <<>>
    /\ flow \in {runAddConfigFlowCall(l) : l \in Labels}
    /\ sb = <<>>
    /\ life = <<>>
    /\ wg = <<>>
    /\ env = <<>>
    /\ rf = <<>>
    /\ cmd = <<>>
    /\ ui = <<>>
    /\ notice = <<>>
    /\ settings = <<>>
    /\ isTrusted = TRUE
    /\ autoRefreshTimeout = "undefined"

AF_PrefixesSettle ==
    /\ flow.pc = "getExistingPrefixes"
    /\ \/ \E prefixes \in PrefixLists : flow' = afPrefixes(flow, prefixes)
       \/ flow' = afRejects(flow)
    /\ UNCHANGED flowFrame

AF_KeySettles ==
    /\ flow.pc = "keyInput"
    /\ \/ \E key \in InputAnswers : flow' = afKey(flow, key)
       \/ flow' = afRejects(flow)
    /\ UNCHANGED flowFrame

AF_ValueSettles ==
    /\ flow.pc = "valueInput"
    /\ \/ \E value \in InputAnswers : flow' = afValue(flow, value)
       \/ flow' = afRejects(flow)
    /\ UNCHANGED flowFrame

AF_LabelSettles ==
    /\ flow.pc = "labelPick"
    /\ \/ \E dismissed \in BOOLEAN : flow' = afLabel(flow, dismissed)
       \/ flow' = afRejects(flow)
    /\ UNCHANGED flowFrame

AF_CreateSettles ==
    /\ flow.pc = "createSetting"
    /\ \E resolved \in BOOLEAN : flow' = afCreated(flow, resolved)
    /\ UNCHANGED flowFrame

AF_RefreshSettles ==
    /\ flow.pc = "refresh"
    /\ \E resolved \in BOOLEAN : flow' = afRefreshed(flow, resolved)
    /\ UNCHANGED flowFrame

AddConfigNext ==
    \/ AF_PrefixesSettle
    \/ AF_KeySettles
    \/ AF_ValueSettles
    \/ AF_LabelSettles
    \/ AF_CreateSettles
    \/ AF_RefreshSettles

AddConfigSpec == AddConfigInit /\ [][AddConfigNext]_vars

-----------------------------------------------------------------------------
(* StatusBarSpec: setState called on one StatusBarManager                   *)
(* (ui/statusBar.ts)                                                        *)

\* number of setState calls made on the manager
MaxSets == 3

ConnectionStates == {"disconnected", "connecting", "connected", "error", "refreshing"}

\* the details given to setState: none, the empty string, a store with counts
Details == {Undefined, "", "mystore (5 vars)"}

\* a detail is shown when it is given and not empty
Truthy(detail) == detail \notin {Undefined, ""}

getIcon(state) ==
    CASE state = "disconnected" -> "$(cloud)"
      [] state = "connecting" -> "$(sync~spin)"
      [] state = "connected" -> "$(cloud-upload)"
      [] state = "error" -> "$(cloud-offline)"
      [] state = "refreshing" -> "$(sync~spin)"

getLabel(state, detail) ==
    CASE state = "disconnected" -> <<"Azure Env">>
      [] state = "connecting" -> <<"Azure Env: Connecting...">>
      [] state = "connected" -> IF Truthy(detail) THEN <<"Azure Env: ", detail>>
                                ELSE <<"Azure Env: Connected">>
      [] state = "error" -> <<"Azure Env: Error">>
      [] state = "refreshing" -> <<"Azure Env: Refreshing...">>

getTooltip(state, detail) ==
    CASE state = "disconnected" -> <<"Click to connect to Azure App Configuration">>
      [] state = "connecting" -> <<"Authenticating with Azure...">>
      [] state = "connected" ->
            IF Truthy(detail)
            THEN <<"Connected to ", detail, "\nClick to refresh environment">>
            ELSE <<"Click to refresh environment">>
      [] state = "error" -> <<"Connection error - click to reconnect">>
      [] state = "refreshing" -> <<"Fetching configuration values...">>

getBackgroundColor(state) ==
    CASE state = "error" -> "statusBarItem.errorBackground"
      [] OTHER -> Undefined

\* mutant: the command of the item is left as it is
updateDisplayKeepsCommand(s) ==
    [s EXCEPT !.item.text = <<getIcon(s.state), " ">> \o getLabel(s.state, s.detail),
              !.item.tooltip = getTooltip(s.state, s.detail),
              !.item.backgroundColor = getBackgroundColor(s.state)]

\* updateDisplay, lines 48-59
updateDisplay(s) ==
    [s EXCEPT !.item.text = <<getIcon(s.state), " ">> \o getLabel(s.state, s.detail),
              !.item.tooltip = getTooltip(s.state, s.detail),
              !.item.backgroundColor = getBackgroundColor(s.state),
              !.item.command = IF s.state = "connected" THEN "azureEnv.refresh"
                               ELSE "azureEnv.connect"]

\* the constructor, lines 19-30: the fields, the item with its command, then
\* updateDisplay(); sets lists the states given to setState so far
NewStatusBarManager ==
    updateDisplay([state |-> "disconnected", detail |-> Undefined,
                   item |-> [text |-> <<>>, tooltip |-> <<>>,
                             backgroundColor |-> Undefined,
                             command |-> "azureEnv.connect"],
                   sets |-> <<>>])

\* setState, lines 35-39
setState(s, state, detail) ==
    updateDisplay([s EXCEPT !.state = state, !.detail = detail,
                            !.sets = Append(@, state)])

\* getState, lines 44-46
getState(s) == s.state

StatusBarInit ==
    /\ inProgress = FALSE
    /\ hist = <<>>
    /\ store = <<>>
    /\ prev = <<>>
    /\ app = <<>>
    /\ kv = <<>>
    /\ twin = <<>>
    /\ flow = <<>>
    /\ sb = NewStatusBarManager
    /\ life = <<>>
    /\ wg = <<>>
    /\ env = <<>>
    /\ rf = <<>>
    /\ cmd = <<>>
    /\ ui = <<>>
    /\ notice = <<>>
    /\ settings = <<>>
    /\ isTrusted = TRUE
    /\ autoRefreshTimeout = "undefined"

\* a caller calls setState(state, detail)
SB_SetState ==
    /\ Len(sb.sets) < MaxSets
    /\ \E state \in ConnectionStates, detail \in Details :
        sb' = setState(sb, state, detail)
    /\ UNCHANGED <<inProgress, hist, wg, env, rf, extVars, pureVars, kv, twin, flow, life>>

StatusBarNext == SB_SetState

StatusBarSpec == StatusBarInit /\ [][StatusBarNext]_vars

-----------------------------------------------------------------------------
(* ActivationSpec: one activation of the extension, with its 2 second timer, *)
(* the azureEnv.refresh and azureEnv.connect commands, and deactivate        *)

\* the triggers of this specification
ActTriggers == {"manual", "timer", "connect"}

\* mutant: the pending timer is left alone
clearAutoRefreshKeeps(timeout) == timeout

\* lines 75-78 and 485-488: if (autoRefreshTimeout) { clearTimeout(...);
\* autoRefreshTimeout = undefined }
clearAutoRefresh(timeout) == "undefined"

\* activate(), lines 105-117: the timer is armed when endpoint and selected
\* keys are configured
activateTimeout(st) == IF Configured(st) THEN "pending" ELSE "undefined"

\* what became of the activation:
\*   active     deactivate has not been called
\*   armed      activate armed the timer
\*   fired      the number of times the callback of the timer has run
\*   preempted  the azureEnv.refresh command was invoked, or deactivate was
\*              called, before the callback had run
Activated(st) ==
    [active |-> TRUE, armed |-> Configured(st), fired |-> 0, preempted |-> FALSE]

ActInit ==
    /\ inProgress = FALSE
    /\ hist = <<>>
    /\ store = <<>>
    /\ prev = <<>>
    /\ app = <<>>
    /\ kv = <<>>
    /\ twin = <<>>
    /\ flow = <<>>
    /\ sb = <<>>
    /\ wg = <<>>
    /\ env \in StaleEnvs
    /\ rf = [p \in Procs |-> IdleRefresh]
    /\ cmd = [p \in Triggers |-> IdleCmd]
    /\ isTrusted \in BOOLEAN
    /\ settings \in {NoSettings} \cup
            [endpoint : {Endpoint}, selectedKeys : ExtKeySeqs, label : {"dev"}]
    /\ ui = [status |-> IF Configured(settings) THEN "connected" ELSE "disconnected"]
    /\ notice = ""
    /\ autoRefreshTimeout = activateTimeout(settings)
    /\ life = Activated(settings)

actFrame == <<pureVars, kv, twin, flow, sb, hist, wg, env, rf, settings, isTrusted>>

\* the azureEnv.refresh command, lines 73-80: the pending timer is cleared,
\* then refreshCommand is called
Act_RefreshCommand ==
    /\ life.active
    /\ cmd["manual"].pc = "idle"
    /\ autoRefreshTimeout' = clearAutoRefresh(autoRefreshTimeout)
    /\ life' = [life EXCEPT !.preempted = @ \/ life.fired = 0]
    /\ LET r == refreshCommandStart("manual", ExtState, settings, isTrusted) IN
        Commit("manual", r.x, r.c)
    /\ UNCHANGED actFrame

\* the callback of the timer, lines 113-116
Act_TimerFires ==
    /\ autoRefreshTimeout = "pending"
    /\ cmd["timer"].pc = "idle"
    /\ autoRefreshTimeout' = "undefined"
    /\ life' = [life EXCEPT !.fired = @ + 1]
    /\ LET r == refreshCommandStart("timer", ExtState, settings, isTrusted) IN
        Commit("timer", r.x, r.c)
    /\ UNCHANGED actFrame

\* deactivate(), lines 484-489
Act_Deactivate ==
    /\ life.active
    /\ autoRefreshTimeout' = clearAutoRefresh(autoRefreshTimeout)
    /\ life' = [life EXCEPT !.active = FALSE, !.preempted = @ \/ life.fired = 0]
    /\ UNCHANGED <<inProgress, cmd, ui, notice>>
    /\ UNCHANGED actFrame

\* the azureEnv.connect command, while the extension is active
Act_ConnectCommand == life.active /\ Connect_Invoke

ActNext ==
    \/ Act_RefreshCommand
    \/ Act_TimerFires
    \/ Act_Deactivate
    \/ Act_ConnectCommand
    \/ Connect_FlowSettles
    \/ \E p \in ActTriggers :
        \/ RC_SignInSettles(p)
        \/ RC_SubsSettles(p)
        \/ RC_Pass(p)
        \/ RC_Done(p)

ActivationSpec == ActInit /\ [][ActNext]_vars

-----------------------------------------------------------------------------
(* Claims about RefreshGuard *)

\* a withGuard call that has settled (returned {executed: ...} or rejected)
WgSettled(p) == wg[p].pc \in {"settled", "observed"}

\* C1 (as amended): while a withGuard(f) call holds the guard, that is from the
\* call until the continuation that runs after f settles has called finish, every
\* other withGuard(g) call returns {executed:false} and never invokes g; a
\* withGuard call made when no other call holds the guard invokes its function
\* and, when that resolves, returns {executed:true, result}.
C1_SingleFlightExclusion ==
    \A p \in Callers :
        wg[p].pc # "idle" =>
            /\ (wg[p].saw.pending \/ wg[p].saw.gap) =>
                    /\ ~wg[p].invoked
                    /\ wg[p].ret = NotExecuted
            /\ ~(wg[p].saw.pending \/ wg[p].saw.gap) =>
                    /\ wg[p].invoked
                    /\ (WgSettled(p) /\ wg[p].fn.kind = "resolved") =>
                            wg[p].ret = Executed(wg[p].fn.val)

\* C1 witness: one call was blocked by a pending f, and another call, made after
\* a guarded function had settled and released the guard, executed
C1_Witness ==
    \E p, q \in Callers :
        /\ p # q
        /\ wg[p].saw.pending /\ wg[p].ret = NotExecuted
        /\ wg[q].saw.released /\ ~wg[q].saw.pending /\ ~wg[q].saw.gap
        /\ wg[q].ret.kind = "executed"

\* C1 as stated: as soon as f has settled, the next withGuard call invokes its
\* function (fails for a call made after f settled and before the continuation
\* of `await fn()` has run finish)
C1_AsStated ==
    \A p \in Callers :
        wg[p].pc # "idle" =>
            /\ wg[p].saw.pending => (~wg[p].invoked /\ wg[p].ret = NotExecuted)
            /\ ~wg[p].saw.pending => wg[p].invoked

\* C3 (as amended): a withGuard call that executes its function calls finish
\* exactly once, after the function settles and not before, on return and on
\* throw alike; when the function throws, withGuard rejects with that same
\* error, and when the caller observes the rejection the guard is Idle unless
\* another withGuard call has acquired it since and is executing its function.
C3_FinishOnceErrorPropagates ==
    \A p \in Callers :
        /\ wg[p].pc \in {"awaiting", "fnSettled"} => wg[p].finishes = 0
        /\ (WgSettled(p) /\ wg[p].invoked) =>
                /\ wg[p].finishes = 1
                /\ wg[p].fn.kind = "rejected" => wg[p].ret = Rejected(wg[p].fn.val)
                /\ wg[p].fn.kind = "resolved" => wg[p].ret = Executed(wg[p].fn.val)
        /\ (WgSettled(p) /\ ~wg[p].invoked) => wg[p].finishes = 0
        /\ (wg[p].obs.seen /\ wg[p].ret.kind = "rejected") =>
                (wg[p].obs.refreshing => wg[p].obs.otherActive)

\* C3 witness: a caller has observed the rejection of a withGuard call whose
\* function threw, with the guard Idle
C3_Witness ==
    \E p \in Callers :
        /\ wg[p].obs.seen /\ wg[p].invoked
        /\ wg[p].fn.kind = "rejected" /\ wg[p].ret = wg[p].fn
        /\ wg[p].finishes = 1
        /\ ~wg[p].obs.refreshing

\* C3 as stated: the guard is Idle whenever the caller observes the rejection
C3_AsStated ==
    \A p \in Callers :
        (wg[p].obs.seen /\ wg[p].ret.kind = "rejected") => ~wg[p].obs.refreshing

\* the calls that changed the guard's state
StateChanging == {i \in 1..Len(hist) : hist[i].before # hist[i].after}

LastOf(S) == CHOOSE i \in S : \A j \in S : j <= i

\* C4: the guard starts Idle; tryStart returns true exactly when the guard is
\* Idle and then makes it InFlight; on an InFlight guard it returns false and
\* changes nothing; finish always leaves the guard Idle and never throws; so
\* isRefreshing is true iff the last state-changing call was a successful tryStart.
C4_TwoStateMachine ==
    /\ \A i \in 1..Len(hist) :
        LET h == hist[i] IN
        /\ h.before = (IF i = 1 THEN FALSE ELSE hist[i - 1].after)
        /\ h.op = "tryStart" =>
                /\ h.ret = ~h.before
                /\ ~h.before => h.after
                /\ h.before => h.after = h.before
        /\ h.op = "finish" => (h.after = FALSE /\ h.ret = "void")
    /\ isRefreshing(inProgress) =
            (IF Len(hist) = 0 THEN FALSE ELSE hist[Len(hist)].after)
    /\ isRefreshing(inProgress) =
            (/\ StateChanging # {}
             /\ hist[LastOf(StateChanging)].op = "tryStart"
             /\ hist[LastOf(StateChanging)].ret = TRUE)

\* C4 witness: a successful tryStart, a refused tryStart, a finish on an InFlight
\* guard and a finish on an Idle guard have all happened
C4_Witness ==
    \E i, j, k, l \in 1..Len(hist) :
        /\ hist[i].op = "tryStart" /\ hist[i].ret = TRUE
        /\ hist[j].op = "tryStart" /\ hist[j].ret = FALSE
        /\ hist[k].op = "finish" /\ hist[k].before
        /\ hist[l].op = "finish" /\ ~hist[l].before

-----------------------------------------------------------------------------
(* Claims about the refresh triggers of the extension (Spec) *)

AlreadyInProgress == "Environment refresh already in progress"

\* the processes inside refreshCommand
InRefreshCommand(c) == c.pc \in {"awaitSignIn", "awaitSubs", "refreshing"}

\* C2: under every interleaving of the refresh triggers at most one
\* refreshEnvironment pass exists at any moment, its refreshCommand holds the
\* guard, at most one refreshCommand holds the guard, and every collaborator
\* call of a pass (clear and replace among them) is made by the refreshCommand
\* that holds the guard, before and after the call.
C2_OnePassHoldsGuard ==
    /\ [](/\ Cardinality({p \in Triggers : rf[p].pc # "idle"}) <= 1
          /\ Cardinality({p \in Triggers : cmd[p].holds}) <= 1
          /\ \A p \in Triggers :
                /\ rf[p].pc # "idle" => cmd[p].holds
                /\ cmd[p].holds => isRefreshing(inProgress))
    /\ [][\A p \in Triggers :
            (rf'[p].calls # rf[p].calls /\ rf'[p].calls # <<>>) =>
                /\ cmd[p].holds /\ cmd'[p].holds
                /\ inProgress /\ inProgress'
                /\ \A q \in Triggers \ {p} : ~cmd[q].holds /\ rf[q].pc = "idle"]_vars

\* C2 witness: a pass that has cleared and written the collection is in
\* progress while a second trigger has just been refused
C2_Witness ==
    /\ notice = AlreadyInProgress
    /\ \E p \in Triggers :
        /\ rf[p].pc \in {"awaitSetting", "awaitSecret"}
        /\ \E j \in 1..Len(rf[p].calls) : rf[p].calls[j].op = "replace"

\* C5: a refresh request that finds the guard InFlight is dropped: the step
\* that shows "already in progress" leaves the guard InFlight, changes neither
\* the collection nor any pass (no fetch, clear or replace), does not enter the
\* refreshing state and leaves the refused handler outside refreshCommand; and
\* when the running refreshCommand releases the guard, no trigger is inside
\* refreshCommand afterwards (nothing was queued).
C5_RefusedIsDropped ==
    /\ [][(notice' = AlreadyInProgress /\ notice # AlreadyInProgress) =>
            /\ inProgress /\ inProgress'
            /\ env' = env
            /\ rf' = rf
            /\ ui'.status # "refreshing" \/ ui.status = "refreshing"
            /\ \A q \in Triggers :
                \/ cmd'[q] = cmd[q]
                \/ ~InRefreshCommand(cmd[q]) /\ cmd'[q] = IdleCmd]_vars
    /\ [][(inProgress /\ ~inProgress') =>
            \A q \in Triggers :
                /\ ~InRefreshCommand(cmd'[q])
                /\ ~cmd'[q].holds
                /\ rf'[q].pc = "idle"]_vars

\* C5 witness: a request has just been refused while a pass is in progress
C5_Witness ==
    /\ notice = AlreadyInProgress
    /\ inProgress
    /\ \E p \in Triggers : cmd[p].holds /\ rf[p].pc = "awaitSetting"
    /\ \E q \in Triggers : ~cmd[q].holds /\ cmd[q] = IdleCmd

-----------------------------------------------------------------------------
(* Claims about refreshEnvironment (RefreshSpec) *)

\* the pass of the direct caller
D == rf["direct"]

\* the positions of the calls of kind op
CallsOf(a, op) == {j \in 1..Len(a.calls) : a.calls[j].op = op}

\* the positions of the calls of kind op for occurrence i
CallsFor(a, op, i) == {j \in CallsOf(a, op) : a.calls[j].i = i}

\* occurrence i has failed: at the fetch, at the parse of the reference, or at
\* the resolution of the secret
FetchFailed(a, i) == CallsFor(a, "getSetting.fail", i) # {}

ParseFailed(a, i) ==
    \E g \in CallsFor(a, "getSetting.ok", i) :
        /\ isKeyVaultReference(a.calls[g].b)
        /\ ~parseKeyVaultReference(IF a.calls[g].a = Undefined THEN ""
                                   ELSE a.calls[g].a).ok

SecretFailed(a, i) == CallsFor(a, "resolveSecret.fail", i) # {}

OccFailed(a, i) == FetchFailed(a, i) \/ ParseFailed(a, i) \/ SecretFailed(a, i)

\* occurrence i has resolved: a plain setting was fetched, or the secret of a
\* reference was returned
OccResolved(a, i) ==
    \/ \E g \in CallsFor(a, "getSetting.ok", i) : ~isKeyVaultReference(a.calls[g].b)
    \/ CallsFor(a, "resolveSecret.ok", i) # {}

\* C6: in every pass clear() is called exactly once, as the first call of the
\* pass, so before every getSetting and every replace; also for an empty
\* selection and when cancellation is requested on entry; and what the
\* collection holds afterwards was written by this pass.
C6_ClearOnceFirst ==
    D.pc # "idle" =>
        /\ Len(D.calls) >= 1
        /\ D.calls[1].op = "clear"
        /\ CallsOf(D, "clear") = {1}
        /\ DOMAIN env = {D.calls[j].a : j \in CallsOf(D, "replace")}

\* C6 witness: a pass entered with cancellation already requested has returned
\* having called clear and nothing else
C6_Witness ==
    /\ D.pc = "returned"
    /\ D.cancel = "requested"
    /\ D.keys # <<>>
    /\ Len(D.calls) = 1
    /\ D.calls[1].op = "clear"

\* C7: every replace is for an occurrence whose getSetting has succeeded
\* before; its name is transformKeyToEnvVar of that key; for a Key Vault
\* reference the value has parsed and resolveSecret has returned, before the
\* replace, the value written; for every other setting the value written is the
\* stored one; an occurrence that failed at any step has no replace.
C7_ReplaceOnlyAfterResolution ==
    /\ \A j \in CallsOf(D, "replace") :
        LET i == D.calls[j].i IN
        /\ D.calls[j].a = transformKeyToEnvVar(D.keys[i])
        /\ \E g \in CallsFor(D, "getSetting.ok", i) :
            /\ g < j
            /\ IF isKeyVaultReference(D.calls[g].b)
               THEN /\ ~ParseFailed(D, i)
                    /\ \E r \in CallsFor(D, "resolveSecret.ok", i) :
                        g < r /\ r < j /\ D.calls[j].b = D.calls[r].a
               ELSE D.calls[j].b = (IF D.calls[g].a = Undefined THEN "" ELSE D.calls[g].a)
    /\ \A i \in 1..Len(D.keys) : OccFailed(D, i) => CallsFor(D, "replace", i) = {}

\* C7 witness: in one pass a reference was resolved and written, and the
\* resolution of another failed
C7_Witness ==
    /\ D.pc = "returned"
    /\ \E j \in CallsOf(D, "replace") : D.calls[j].b = "s3cret"
    /\ \E i \in 1..Len(D.keys) : SecretFailed(D, i)
    /\ D.succeeded = 1 /\ D.failed = 1

\* C8: whatever fails for a key (the fetch, the parse of the reference, the
\* resolution of the secret), the pass goes on: unless cancellation is
\* requested, the next key has been fetched as soon as the failure is recorded,
\* a pass that returns has fetched every key and written every one that
\* resolved, and it returns a result in which every failure is recorded.
C8_FailureDoesNotAbort ==
    /\ \A i \in 1..Len(D.keys) :
        (OccFailed(D, i) /\ D.cancel # "requested") =>
            /\ i < Len(D.keys) =>
                \E j \in CallsFor(D, "getSetting", i + 1) : D.calls[j].a = D.keys[i + 1]
            /\ i = Len(D.keys) => D.pc = "returned"
    /\ (D.pc = "returned" /\ D.cancel # "requested") =>
        \A i \in 1..Len(D.keys) :
            /\ CallsFor(D, "getSetting", i) # {}
            /\ OccFailed(D, i) \/ OccResolved(D, i)
            /\ OccResolved(D, i) => CallsFor(D, "replace", i) # {}
    /\ D.failed = Cardinality({i \in 1..Len(D.keys) : OccFailed(D, i)})
    /\ D.failed = Len(D.errors)

\* C8 witness: the first key failed and the second was fetched and written
C8_Witness ==
    /\ D.pc = "returned"
    /\ Len(D.keys) = 2
    /\ OccFailed(D, 1)
    /\ CallsFor(D, "replace", 2) # {}
    /\ D.failed = 1 /\ D.succeeded = 1

\* the selected keys map to pairwise distinct environment variable names
DistinctNames(keys) ==
    \A i, j \in 1..Len(keys) :
        i # j => transformKeyToEnvVar(keys[i]) # transformKeyToEnvVar(keys[j])

\* a pass over all the keys, not cancelled, in which exactly occurrence f failed,
\* and at the fetch
OnlyFetchFailure(a, f) ==
    /\ a.pc = "returned"
    /\ a.cancel # "requested"
    /\ f \in 1..Len(a.keys)
    /\ FetchFailed(a, f)
    /\ \A i \in 1..Len(a.keys) : i # f => ~OccFailed(a, i)

\* C9 (as amended): in a pass that is not cancelled, over N selected keys of
\* which exactly one fails at the fetch, succeeded = N-1 and failed = 1, replace
\* is called N-1 times and the sink holds exactly the names of the other keys;
\* these are N-1 entries, none of them for the failing key, when the selected
\* keys map to pairwise distinct names.
C9_PartialFailureIsolation ==
    \A f \in 1..Len(D.keys) :
        OnlyFetchFailure(D, f) =>
            /\ D.succeeded = Len(D.keys) - 1
            /\ D.failed = 1
            /\ Cardinality(CallsOf(D, "replace")) = Len(D.keys) - 1
            /\ DOMAIN env = {transformKeyToEnvVar(D.keys[i]) :
                                i \in (1..Len(D.keys)) \ {f}}
            /\ DistinctNames(D.keys) =>
                /\ Cardinality(DOMAIN env) = Len(D.keys) - 1
                /\ transformKeyToEnvVar(D.keys[f]) \notin DOMAIN env

\* C9 witness: two keys with different names, the first failed at the fetch
C9_Witness ==
    /\ OnlyFetchFailure(D, 1)
    /\ Len(D.keys) = 2
    /\ DistinctNames(D.keys)
    /\ Cardinality(DOMAIN env) = 1

\* C9 as stated: the sink holds N-1 entries and none for the failing key,
\* whatever the keys
C9_AsStated ==
    \A f \in 1..Len(D.keys) :
        OnlyFetchFailure(D, f) =>
            /\ D.succeeded = Len(D.keys) - 1
            /\ D.failed = 1
            /\ Cardinality(DOMAIN env) = Len(D.keys) - 1
            /\ transformKeyToEnvVar(D.keys[f]) \notin DOMAIN env

\* C10 (as amended): in every result succeeded + failed is the number of key
\* occurrences whose resolution was started, which is at most the length of
\* selectedKeys and equals it when the pass was not cancelled.
C10_CountsSum ==
    /\ D.pc \in {"awaitSetting", "awaitSecret"} => D.succeeded + D.failed = D.i - 1
    /\ D.pc = "returned" =>
        /\ D.succeeded + D.failed = Cardinality(CallsOf(D, "getSetting"))
        /\ D.succeeded + D.failed <= Len(D.keys)
        /\ D.cancel # "requested" => D.succeeded + D.failed = Len(D.keys)

\* C10 witness: a pass over two keys was cancelled while the first was being
\* resolved, and returned after it
C10_Witness ==
    /\ D.pc = "returned"
    /\ D.cancel = "requested"
    /\ Len(D.keys) = 2
    /\ D.succeeded + D.failed = 1

\* C10 as stated: succeeded + failed is the length of selectedKeys in every
\* result
C10_AsStated ==
    D.pc = "returned" => D.succeeded + D.failed = Len(D.keys)

\* the occurrences that have failed so far
FailedOccs(a) == {i \in 1..Len(a.keys) : OccFailed(a, i)}

\* the error raised while resolving occurrence i, read from what the
\* collaborators were asked and answered: the rejection of getSetting for that
\* key and label, else what parseKeyVaultReference threw on the stored value,
\* else the rejection of resolveSecret for the uri it was called with
ErrorOf(a, i) ==
    IF FetchFailed(a, i)
    THEN Err("AppConfigError", <<a.keys[i], a.label>>)
    ELSE IF ParseFailed(a, i)
    THEN LET g == CHOOSE g \in CallsFor(a, "getSetting.ok", i) : TRUE
         IN parseKeyVaultReference(IF a.calls[g].a = Undefined THEN ""
                                   ELSE a.calls[g].a).error
    ELSE LET r == CHOOSE r \in CallsFor(a, "resolveSecret", i) : TRUE
         IN Err("KeyVaultError", <<a.calls[r].a>>)

\* C11: errors has exactly `failed` elements, one per failed occurrence and in
\* the order of the failures; the k-th element pairs the key of the k-th failed
\* occurrence with the error raised while resolving that occurrence; an
\* occurrence that was written (succeeded) is not among the failed ones.
C11_ErrorsPairKeyWithError ==
    /\ Len(D.errors) = D.failed
    /\ D.failed = Cardinality(FailedOccs(D))
    /\ \A k \in 1..Len(D.errors) :
        \E i \in FailedOccs(D) :
            /\ Cardinality({j \in FailedOccs(D) : j <= i}) = k
            /\ D.errors[k] = [key |-> D.keys[i], error |-> ErrorOf(D, i)]
    /\ \A i \in 1..Len(D.keys) :
        CallsFor(D, "replace", i) # {} =>
            /\ i \notin FailedOccs(D)
            /\ D.succeeded >= 1

\* C11 witness: of two different keys the first was written and the second
\* failed at the parse of its reference; the one error names the second key
C11_Witness ==
    /\ D.pc = "returned"
    /\ Len(D.keys) = 2
    /\ D.keys[1] # D.keys[2]
    /\ CallsFor(D, "replace", 1) # {}
    /\ ParseFailed(D, 2)
    /\ Len(D.errors) = 1
    /\ D.errors[1].key = D.keys[2]

\* C12: once the cancellation token is requested, the pass starts no further
\* getSetting: the key in flight is finished and the pass then returns; a pass
\* entered with the token requested returns at once; the result of a cancelled
\* pass holds the counts and errors of the occurrences that were started, no
\* call was made for a later occurrence, and none of those is in errors.
C12_CancellationStopsNewWork ==
    /\ []((D.pc = "returned" /\ D.cancel = "requested") =>
            LET n == D.succeeded + D.failed IN
            /\ n = Cardinality(CallsOf(D, "getSetting"))
            /\ \A j \in 1..Len(D.calls) : D.calls[j].i <= n
            /\ Len(D.errors) = D.failed
            /\ D.failed = Cardinality(FailedOccs(D))
            /\ FailedOccs(D) \subseteq 1..n)
    /\ [][(rf["direct"].cancel = "requested" /\ rf'["direct"].pc # "idle") =>
            /\ CallsOf(rf'["direct"], "getSetting") = CallsOf(rf["direct"], "getSetting")
            /\ rf'["direct"].pc \in {"awaitSecret", "returned"}]_vars
    /\ [][(rf["direct"].pc = "idle" /\ rf'["direct"].cancel = "requested") =>
            /\ rf'["direct"].pc = "returned"
            /\ CallsOf(rf'["direct"], "getSetting") = {}
            /\ rf'["direct"].failed = 0]_vars

\* C12 witness: the token was requested while the first of two keys was being
\* fetched; the fetch failed, and the pass returned that one failure only
C12_Witness ==
    /\ D.pc = "returned"
    /\ D.cancel = "requested"
    /\ Len(D.keys) = 2
    /\ D.failed = 1 /\ D.succeeded = 0
    /\ Len(D.errors) = 1
    /\ CallsFor(D, "getSetting", 2) = {}

\* the stored value as the pass reads it: setting.value ?? ''
StoredValue(c) == IF c.a = Undefined THEN "" ELSE c.a

\* the stored value c is JSON with a non-empty uri
HasUri(c) ==
    /\ JsonParse(StoredValue(c)).ok
    /\ JsonParse(StoredValue(c)).uri \notin {Undefined, ""}

\* C14: when getSetting returns an entry whose content type contains
\* keyvaultref and whose value is JSON with a non-empty uri U, the next call is
\* resolveSecret(U), and when that returns s the next call is
\* replace(transformKeyToEnvVar(key), s); for an entry of any other content
\* type the next call is replace(transformKeyToEnvVar(key), value) with the
\* stored value (the empty string when absent); a reference without a uri is
\* neither resolved nor written.
C14_ReferenceResolvedElseVerbatim ==
    \A g \in CallsOf(D, "getSetting.ok") :
        LET i == D.calls[g].i
            envName == transformKeyToEnvVar(D.keys[i])
        IN  IF isKeyVaultReference(D.calls[g].b)
            THEN IF HasUri(D.calls[g])
                 THEN /\ Len(D.calls) > g
                      /\ D.calls[g + 1] = Call("resolveSecret", i,
                                               JsonParse(StoredValue(D.calls[g])).uri, "")
                      /\ (Len(D.calls) > g + 1 /\ D.calls[g + 2].op = "resolveSecret.ok") =>
                            /\ Len(D.calls) > g + 2
                            /\ D.calls[g + 3] = Call("replace", i, envName,
                                                     D.calls[g + 2].a)
                      /\ \A j \in CallsFor(D, "replace", i) : j = g + 3
                 ELSE /\ CallsFor(D, "resolveSecret", i) = {}
                      /\ CallsFor(D, "replace", i) = {}
            ELSE /\ Len(D.calls) > g
                 /\ D.calls[g + 1] = Call("replace", i, envName, StoredValue(D.calls[g]))
                 /\ CallsFor(D, "resolveSecret", i) = {}

\* C14 witness: one key held a reference whose secret was resolved and written,
\* the other held the same JSON under a plain content type, written as it is
C14_Witness ==
    /\ D.pc = "returned"
    /\ Len(D.keys) = 2
    /\ \E i, k \in 1..2 :
        /\ i # k
        /\ CallsFor(D, "resolveSecret.ok", i) # {}
        /\ \E j \in CallsFor(D, "replace", i) : D.calls[j].b = "s3cret"
        /\ CallsFor(D, "resolveSecret", k) = {}
        /\ \E j \in CallsFor(D, "replace", k) : D.calls[j].b = RefJson

\* C15: when getSetting returns an entry that is not a Key Vault reference and
\* whose value is the empty string or absent, the next call is
\* replace(envName, "") and the collection then holds "" under that name; the
\* occurrence is counted in succeeded and is not among the failed ones.
C15_EmptyValueInjected ==
    /\ \A g \in CallsOf(D, "getSetting.ok") :
        LET i == D.calls[g].i
            envName == transformKeyToEnvVar(D.keys[i])
        IN  (~isKeyVaultReference(D.calls[g].b) /\ D.calls[g].a \in {"", Undefined}) =>
                /\ Len(D.calls) > g
                /\ D.calls[g + 1] = Call("replace", i, envName, "")
                /\ Len(D.calls) = g + 1 => (envName \in DOMAIN env /\ env[envName] = "")
                /\ i \notin FailedOccs(D)
    /\ D.succeeded = Cardinality(CallsOf(D, "replace"))
    /\ D.failed = Cardinality(FailedOccs(D))
    /\ Len(D.errors) = D.failed

\* C15 witness: of two keys one held the empty string and the other no value;
\* both were written as "" and both count as succeeded
C15_Witness ==
    /\ D.pc = "returned"
    /\ Len(D.keys) = 2
    /\ transformKeyToEnvVar(D.keys[1]) # transformKeyToEnvVar(D.keys[2])
    /\ \E g \in CallsOf(D, "getSetting.ok") : D.calls[g].a = ""
    /\ \E g \in CallsOf(D, "getSetting.ok") : D.calls[g].a = Undefined
    /\ D.succeeded = 2 /\ D.failed = 0 /\ D.errors = <<>>
    /\ \A n \in DOMAIN env : env[n] = ""
    /\ Cardinality(DOMAIN env) = 2

\* the occurrences the pass has reached: those counted, and the one in flight
Reached(a) ==
    1..(a.succeeded + a.failed
        + (IF a.pc \in {"awaitSetting", "awaitSecret"} THEN 1 ELSE 0))

\* C16: a pass calls getSetting exactly once for every occurrence it has
\* reached, with the key of that occurrence and the label, in the order of
\* selectedKeys, and never for an occurrence it has not reached; it calls
\* resolveSecret at most once per occurrence; no call is made again after it
\* failed.
C16_OneFetchPerOccurrence ==
    /\ Reached(D) \subseteq 1..Len(D.keys)
    /\ \A i \in 1..Len(D.keys) :
        /\ Cardinality(CallsFor(D, "getSetting", i)) = (IF i \in Reached(D) THEN 1 ELSE 0)
        /\ Cardinality(CallsFor(D, "resolveSecret", i)) <= 1
        /\ Cardinality(CallsFor(D, "getSetting.ok", i)
                        \cup CallsFor(D, "getSetting.fail", i)) <= 1
        /\ Cardinality(CallsFor(D, "resolveSecret.ok", i)
                        \cup CallsFor(D, "resolveSecret.fail", i)) <= 1
    /\ \A j \in CallsOf(D, "getSetting") :
        /\ D.calls[j].a = D.keys[D.calls[j].i]
        /\ D.calls[j].b = D.label
        /\ \A k \in CallsOf(D, "getSetting") : j < k => D.calls[j].i < D.calls[k].i
    /\ \A j \in CallsOf(D, "getSetting.fail") \cup CallsOf(D, "resolveSecret.fail") :
        \A k \in (j + 1)..Len(D.calls) : D.calls[k].i # D.calls[j].i

\* C16 witness: the same key was selected twice; its first fetch failed and
\* was not repeated, its second fetch was made on its own and succeeded
C16_Witness ==
    /\ D.pc = "returned"
    /\ Len(D.keys) = 2
    /\ D.keys[1] = D.keys[2]
    /\ FetchFailed(D, 1)
    /\ CallsFor(D, "replace", 2) # {}
    /\ Cardinality(CallsOf(D, "getSetting")) = 2
    /\ D.failed = 1 /\ D.succeeded = 1

-----------------------------------------------------------------------------
(* Claims about repeated passes (StableSpec) *)

\* the keys a result reports as failed
FailingKeys(o) == {o.errors[k].key : k \in 1..Len(o.errors)}

\* C13: two calls in a row with the same selectedKeys and label, against stores
\* whose answers do not change and without cancellation, return the same
\* succeeded and failed counts and the same set of failing keys, and the
\* collection holds the same variables after the second call as after the first.
C13_RepeatedPassSameOutcome ==
    \A m, n \in 1..Len(prev) :
        /\ prev[m].succeeded = prev[n].succeeded
        /\ prev[m].failed = prev[n].failed
        /\ FailingKeys(prev[m]) = FailingKeys(prev[n])
        /\ prev[m].env = prev[n].env

\* C13 witness: two passes over two keys have been made from a collection that
\* held a stale variable; each wrote one key and failed on the other
C13_Witness ==
    /\ Len(prev) = NumPasses
    /\ Len(store.keys) = 2
    /\ prev[1].succeeded = 1 /\ prev[1].failed = 1
    /\ prev[2].succeeded = 1 /\ prev[2].failed = 1
    /\ prev[2].env # <<>>
    /\ <<"O", "L", "D">> \notin DOMAIN prev[1].env

-----------------------------------------------------------------------------
(* Claims about the functions of models/configValue.ts (FunctionSpec) *)

\* C17: transformKeyToEnvVar never throws and returns a string of the length
\* of the key in which every '/' of the key is a '_', every lower-case letter
\* its upper-case letter, and every other character itself; so the empty string
\* gives the empty string and "a//b" gives "A__B".
C17_SlashesToUnderscoresUpperCased ==
    app.fn = "transformKeyToEnvVar" =>
        /\ ~app.out.threw
        /\ Len(app.out.value) = Len(app.arg)
        /\ \A i \in 1..Len(app.arg) :
            app.out.value[i] = (CASE app.arg[i] = "/" -> "_"
                                  [] app.arg[i] = "a" -> "A"
                                  [] app.arg[i] = "b" -> "B"
                                  [] OTHER -> app.arg[i])
        /\ app.arg = <<>> => app.out.value = <<>>
        /\ app.arg = <<"a", "/", "/", "b">> => app.out.value = <<"A", "_", "_", "B">>

\* C17 witness: transformKeyToEnvVar("a//b") has returned "A__B"
C17_Witness ==
    /\ app.fn = "transformKeyToEnvVar"
    /\ app.arg = <<"a", "/", "/", "b">>
    /\ app.out = Returned(<<"A", "_", "_", "B">>)

\* the tokens of a content type spell the substring keyvaultref: one of them
\* is keyvaultref, or keyvault is followed by ref
SpellsKeyVaultRef(ct) ==
    \E i \in 1..Len(ct) :
        \/ ct[i] = "keyvaultref"
        \/ i < Len(ct) /\ ct[i] = "keyvault" /\ ct[i + 1] = "ref"

\* C18: isKeyVaultReference returns true exactly when the content type is
\* present and contains keyvaultref in that case, wherever in the string and
\* whatever follows it; an absent content type and one that spells it in
\* another case give false.
C18_TrueIffContainsKeyVaultRef ==
    app.fn = "isKeyVaultReference" =>
        /\ ~app.out.threw
        /\ app.out.value = (app.arg # UndefinedCT /\ SpellsKeyVaultRef(app.arg))
        /\ app.arg = UndefinedCT => app.out.value = FALSE
        /\ app.arg = <<"KeyVaultRef", "+json">> => app.out.value = FALSE

\* C18 witness: the content type of a reference with a charset suffix was
\* given, and true was returned
C18_Witness ==
    /\ app.fn = "isKeyVaultReference"
    /\ app.arg = KeyVaultRefCT
    /\ app.out = Returned(TRUE)

\* the string is a URL whose path is /secrets/<name> or
\* /secrets/<name>/<version>
IsSecretPath(uri) ==
    \E name, version \in Segments \ {""} :
        \/ uri = UriOf(<<"secrets", name>>)
        \/ uri = UriOf(<<"secrets", name, version>>)

\* C19 as stated: parseKeyVaultSecretUri returns exactly for the URIs whose
\* path is /secrets/<name> or /secrets/<name>/<version>, and then vaultUrl is
\* scheme and host, secretName is <name> and version is <version> or absent;
\* for every other string it throws.
C19_AsStated ==
    app.fn = "parseKeyVaultSecretUri" =>
        /\ ~app.out.threw <=> IsSecretPath(app.arg)
        /\ \A name \in Segments \ {""} :
            /\ app.arg = UriOf(<<"secrets", name>>) =>
                app.out = Returned([vaultUrl |-> <<"https:", "//", VaultHost>>,
                                    secretName |-> name, version |-> Undefined])
            /\ \A version \in Segments \ {""} :
                app.arg = UriOf(<<"secrets", name, version>>) =>
                    app.out = Returned([vaultUrl |-> <<"https:", "//", VaultHost>>,
                                        secretName |-> name, version |-> version])

-----------------------------------------------------------------------------
(* Claims about the errors of malformed references (RefreshSpec) *)

\* the position in errors of the failure of occurrence i
ErrorIndex(a, i) == Cardinality({j \in FailedOccs(a) : j <= i})

\* C20 as stated: when the stored value of a reference is malformed, the error
\* recorded for the key is a KeyVaultReferenceError carrying the value and the
\* reason: invalid_json when the value is not JSON, missing_uri when the parsed
\* object has no uri or an empty one.
C20_AsStated ==
    \A i \in FailedOccs(D) :
        ParseFailed(D, i) =>
            LET g == CHOOSE g \in CallsFor(D, "getSetting.ok", i) : TRUE
                value == StoredValue(D.calls[g])
                recorded == D.errors[ErrorIndex(D, i)]
            IN  /\ recorded.key = D.keys[i]
                /\ recorded.error.kind = "KeyVaultReferenceError"
                /\ recorded.error.detail =
                        <<value, IF JsonParse(value).ok THEN "missing_uri"
                                 ELSE "invalid_json">>

-----------------------------------------------------------------------------
(* Claims about the typed errors and the store clients (ErrorSpec) *)

\* the status code the SDK failed with, if the value thrown has one
SdkStatus(error) ==
    IF error.kind = "RestError" THEN error.statusCode ELSE NoStatus

\* the retry-after hint of the response the SDK failed with
SdkHint(error) ==
    IF error.kind = "RestError" /\ error.headers = "30"
    THEN Number(30000)
    ELSE NoNumber

\* C21: when the SDK call fails, getSetting throws a typed error whose cause is
\* what the SDK threw, never that value itself: a RateLimitError for AppConfig
\* with the retry-after of the response in milliseconds if the status is 429,
\* else an AppConfigError carrying the key and the label; resolveSecret likewise
\* throws a RateLimitError for KeyVault or a KeyVaultError carrying the uri, the
\* latter also when the uri does not parse.
C21_StoreClientsThrowTypedErrors ==
    /\ app.fn = "getSetting" =>
        LET key == app.arg[1]
            label == app.arg[2]
            sdk == app.arg[3]
        IN  /\ sdk.ok => app.out = Returned(sdk.value)
            /\ ~sdk.ok =>
                /\ app.out.threw
                /\ app.out.error # sdk.error
                /\ app.out.error.cause = sdk.error
                /\ SdkStatus(sdk.error) = 429 =>
                    /\ app.out.error.kind = "RateLimitError"
                    /\ app.out.error.detail = <<"AppConfig">>
                    /\ app.out.error.retryAfterMs = SdkHint(sdk.error)
                /\ SdkStatus(sdk.error) # 429 =>
                    /\ app.out.error.kind = "AppConfigError"
                    /\ app.out.error.detail = <<key, label>>
                    /\ app.out.error.statusCode = SdkStatus(sdk.error)
    /\ app.fn = "resolveSecret" =>
        LET uri == app.arg[1]
            sdk == app.arg[2]
            parses == uri = UriOf(<<"secrets", "MySecret">>)
        IN  /\ (parses /\ sdk.ok) =>
                /\ ~app.out.threw
                /\ app.out.value = (IF sdk.value = Undefined THEN "" ELSE sdk.value)
            /\ (parses /\ ~sdk.ok) =>
                /\ app.out.threw
                /\ app.out.error # sdk.error
                /\ app.out.error.cause = sdk.error
                /\ SdkStatus(sdk.error) = 429 =>
                    /\ app.out.error.kind = "RateLimitError"
                    /\ app.out.error.detail = <<"KeyVault">>
                    /\ app.out.error.retryAfterMs = SdkHint(sdk.error)
                /\ SdkStatus(sdk.error) # 429 =>
                    /\ app.out.error.kind = "KeyVaultError"
                    /\ app.out.error.detail = <<uri>>
                    /\ app.out.error.statusCode = SdkStatus(sdk.error)
            /\ ~parses =>
                /\ app.out.threw
                /\ app.out.error.kind = "KeyVaultError"
                /\ app.out.error.detail = <<uri>>

\* C21 witness: getSetting has turned a 429 response with a retry-after header
\* into a RateLimitError for AppConfig with the hint
C21_Witness ==
    /\ app.fn = "getSetting"
    /\ ~app.arg[3].ok
    /\ app.arg[3].error = RestError(429, "30")
    /\ app.out.threw
    /\ app.out.error = RateLimitError("AppConfig", Number(30000), RestError(429, "30"))

\* C22: an AppConfigError or KeyVaultError is retryable exactly when its cause
\* has status code 429, 500 or 503; a RateLimitError is always retryable and
\* its status code is 429 whatever its cause; a KeyVaultReferenceError and a
\* ValidationError are never retryable.
C22_RetryableByKindAndStatus ==
    app.fn = "isRetryable" =>
        LET error == app.arg
            causeStatus == IF error.cause = NoCause THEN NoStatus
                           ELSE SdkStatus(error.cause)
        IN  /\ ~app.out.threw
            /\ error.kind \in {"AppConfigError", "KeyVaultError"} =>
                /\ error.statusCode = causeStatus
                /\ app.out.value = (causeStatus \in {429, 500, 503})
                /\ causeStatus \in {404, 401, 403} => app.out.value = FALSE
            /\ error.kind = "RateLimitError" =>
                /\ app.out.value = TRUE
                /\ error.statusCode = 429
            /\ error.kind \in {"KeyVaultReferenceError", "ValidationError"} =>
                app.out.value = FALSE

\* C22 witness: isRetryable has been read from a KeyVaultError whose cause had
\* status 404, and was false
C22_Witness ==
    /\ app.fn = "isRetryable"
    /\ app.arg.kind = "KeyVaultError"
    /\ app.arg.statusCode = 404
    /\ app.out = Returned(FALSE)

-----------------------------------------------------------------------------
(* Claims about KeyVaultService *)

\* the calls of resolveSecret whose uri parsed, and the vault URL of a call
ParsedCalls == {i \in DOMAIN kv.calls : ~parseKeyVaultSecretUri(kv.calls[i].uri).threw}
VaultUrlOf(i) == parseKeyVaultSecretUri(kv.calls[i].uri).value.vaultUrl

\* the number of SecretClients constructed for a vault URL
ClientsCreatedFor(vaultUrl) ==
    Cardinality({c \in DOMAIN kv.created : kv.created[c] = vaultUrl})

\* C23: on one KeyVaultService, whatever resolveSecret / resolveSecrets calls
\* were made and however they overlap, exactly one SecretClient has been
\* constructed for each distinct vault URL among the URIs that parsed and none
\* for anything else; two calls use the same client exactly when their URIs
\* name the same vault, a call whose URI does not parse uses no client, and this
\* remains so after fetches have failed.
C23_OneClientPerVault ==
    /\ \A i \in ParsedCalls : ClientsCreatedFor(VaultUrlOf(i)) = 1
    /\ Len(kv.created) = Cardinality({VaultUrlOf(i) : i \in ParsedCalls})
    /\ \A i, j \in ParsedCalls :
            (kv.calls[i].client = kv.calls[j].client) <=> (VaultUrlOf(i) = VaultUrlOf(j))
    /\ \A i \in DOMAIN kv.calls :
            /\ i \in ParsedCalls => /\ kv.calls[i].client \in DOMAIN kv.created
                                    /\ kv.created[kv.calls[i].client] = VaultUrlOf(i)
                                    /\ kv.clients[VaultUrlOf(i)] = kv.calls[i].client
            /\ i \notin ParsedCalls => kv.calls[i].client = NoClient

\* C23 witness: a fetch from a vault failed, a later call for another secret of
\* the same vault reused its client, and a call for the other vault got a
\* second client
C23_Witness ==
    \E i, j, k \in DOMAIN kv.calls :
        /\ kv.calls[i].pc = "settled" /\ kv.calls[i].result.threw
        /\ kv.calls[i].client # NoClient
        /\ kv.calls[j].afterFailure
        /\ kv.calls[j].client = kv.calls[i].client
        /\ kv.calls[j].uri # kv.calls[i].uri
        /\ kv.calls[k].client \notin {NoClient, kv.calls[i].client}
        /\ Len(kv.created) = 2

-----------------------------------------------------------------------------
(* Claims about what refreshCommand shows *)

\* the secrets a pass injected, by the occurrence they were injected for
SecretsOf(a) ==
    {<<a.calls[n].i, a.calls[n].a>> : n \in {m \in DOMAIN a.calls : a.calls[m].op = "resolveSecret.ok"}}

\* C24: two runs of refreshCommand that get the same settings and the same
\* answers from every collaborator, except for the secret strings resolveSecret
\* returns, write the same lines to the output channel and show the same
\* notification and the same status bar state and text; throughout the pass
\* they agree on their position, their counts and the errors collected.
C24_SecretsNotShown ==
    /\ twin.out[1] = twin.out[2]
    /\ twin.a[1].pc = twin.a[2].pc
    /\ twin.a[1].i = twin.a[2].i
    /\ twin.a[1].succeeded = twin.a[2].succeeded
    /\ twin.a[1].failed = twin.a[2].failed
    /\ twin.a[1].errors = twin.a[2].errors

\* C24 witness: both runs are over and have logged a failure, and a secret
\* that one run injected differs from the one the other run injected for the
\* same key
C24_Witness ==
    /\ twin.pc = "done"
    /\ twin.out[1].log # <<>>
    /\ twin.out[1].state = "connected"
    /\ twin.a[1].failed > 0
    /\ SecretsOf(twin.a[1]) # {}
    /\ SecretsOf(twin.a[1]) # SecretsOf(twin.a[2])
    /\ twin.e[1] # twin.e[2]

-----------------------------------------------------------------------------
(* Claims about runConnectFlow *)

\* the order in which the flow awaits its collaborators
ConnectSteps ==
    <<"ensureSignedIn", "getSubscriptions", "pickSub", "listStores", "pickStore",
      "listKeys", "pickKeys", "saveSettings">>

\* the reason an answer stops the flow with, "" when it does not stop it
StopReason(answer) ==
    IF answer.dismissed THEN "cancelled"
    ELSE IF ~answer.negative THEN ""
    ELSE CASE answer.step = "ensureSignedIn" -> "auth_failed"
           [] answer.step = "getSubscriptions" -> "no_subscriptions"
           [] answer.step = "listStores" -> "no_stores"
           [] answer.step = "listKeys" -> "no_keys"
           [] answer.step = "pickKeys" -> "no_keys_selected"
           [] OTHER -> ""

\* the first answer that stops the flow, 0 when none does
FirstStop ==
    LET stops == {n \in DOMAIN flow.answers : StopReason(flow.answers[n]) # ""} IN
    IF stops = {} THEN 0 ELSE CHOOSE n \in stops : \A m \in stops : n <= m

\* C25: runConnectFlow calls saveSettings at most once, and only after the
\* user was signed in, a subscription and a store were picked and a non-empty
\* key selection was made, with the endpoint of the store picked and the keys
\* selected; when it returns a failure saveSettings has not been called, the
\* flow went no further than the first answer that stops it, and the reason
\* names that answer: auth_failed, no_subscriptions, no_stores, no_keys,
\* cancelled for a dismissed picker, no_keys_selected for an empty selection.
C25_SaveOnlyOnSuccessPath ==
    /\ Len(flow.saved) <= 1
    /\ \A n \in DOMAIN flow.answers : flow.answers[n].step = ConnectSteps[n]
    /\ flow.saved # <<>> =>
            /\ Len(flow.answers) >= 7
            /\ FirstStop = 0
            /\ flow.sub # NoItem /\ flow.store # NoItem
            /\ flow.saved[1].endpoint = flow.store.endpoint
            /\ flow.saved[1].selectedKeys # <<>>
            /\ \A k \in DOMAIN flow.saved[1].selectedKeys :
                    \E n \in DOMAIN flow.offered :
                        flow.offered[n].key = flow.saved[1].selectedKeys[k]
    /\ flow.ret.kind = "success" =>
            /\ Len(flow.saved) = 1
            /\ flow.ret.endpoint = flow.saved[1].endpoint
    /\ flow.ret.kind = "failure" =>
            /\ flow.saved = <<>>
            /\ FirstStop = Len(flow.answers)
            /\ flow.ret.reason = StopReason(flow.answers[Len(flow.answers)])
    /\ (flow.ret.kind = "pending" /\ flow.pc # "saveSettings") => flow.saved = <<>>
    /\ (FirstStop # 0) => flow.ret.kind = "failure"

\* C25 witness: the flow has returned no_keys_selected after every earlier
\* step went through, and saveSettings has not been called
C25_Witness ==
    /\ flow.ret = Failure("no_keys_selected")
    /\ Len(flow.answers) = 7
    /\ flow.saved = <<>>

-----------------------------------------------------------------------------
(* Claims about runAddConfigFlow *)

\* the ranks in flow.events of the events of a kind
EventsOf(what) == {n \in DOMAIN flow.events : flow.events[n].what = what}

\* C26: runAddConfigFlow calls createSetting at most once, only after the key,
\* value and label prompts have all been answered, and with the key and value
\* entered and the label picked; when one of the three prompts is dismissed it
\* returns {success: false, reason: 'cancelled'} and neither createSetting nor
\* refresh has been called; refresh is called at most once, only after
\* createSetting has resolved, never when createSetting rejected, and exactly
\* once when the flow returns success.
C26_CreateThenRefresh ==
    /\ Cardinality(EventsOf("createSetting")) <= 1
    /\ Cardinality(EventsOf("refresh")) <= 1
    /\ EventsOf("createSetting") # {} =>
            /\ flow.prompts = <<TRUE, TRUE, TRUE>>
            /\ flow.events[1] = Event("createSetting",
                                      <<flow.key, flow.value, flow.configuredLabel>>)
    /\ (\E n \in DOMAIN flow.prompts : ~flow.prompts[n]) =>
            /\ flow.ret = AddCancelled
            /\ flow.events = <<>>
    /\ flow.ret = AddCancelled => (\E n \in DOMAIN flow.prompts : ~flow.prompts[n])
    /\ \A r \in EventsOf("refresh") :
            \E c \in EventsOf("createSetting.resolved") : c < r
    /\ EventsOf("createSetting.rejected") # {} =>
            /\ EventsOf("refresh") = {}
            /\ flow.ret = AddRejected
    /\ flow.ret.kind = "success" =>
            /\ flow.ret = Added(flow.key)
            /\ Cardinality(EventsOf("refresh")) = 1
            /\ Cardinality(EventsOf("createSetting")) = 1

\* C26 witness: the flow returned success with an empty key, after
\* createSetting resolved and refresh was called once
C26_Witness ==
    /\ flow.ret = Added("")
    /\ flow.prompts = <<TRUE, TRUE, TRUE>>
    /\ Cardinality(EventsOf("refresh")) = 1
    /\ EventsOf("createSetting.resolved") # {}

-----------------------------------------------------------------------------
(* Claims about StatusBarManager *)

\* C27: after construction and after any sequence of setState calls, getState
\* returns the state last given to setState, disconnected when there was no
\* call; the command of the status bar item is azureEnv.refresh when that state
\* is connected and azureEnv.connect in every other state; the item has the
\* error background when the state is error and no background otherwise.
C27_DisplayFollowsState ==
    /\ getState(sb) = IF sb.sets = <<>> THEN "disconnected" ELSE sb.sets[Len(sb.sets)]
    /\ sb.item.command \in {"azureEnv.refresh", "azureEnv.connect"}
    /\ (sb.item.command = "azureEnv.refresh") <=> (getState(sb) = "connected")
    /\ sb.item.backgroundColor \in {"statusBarItem.errorBackground", Undefined}
    /\ (sb.item.backgroundColor = "statusBarItem.errorBackground") <=> (getState(sb) = "error")

\* C27 witness: the manager was set to connected, then to error, and then to
\* refreshing
C27_Witness ==
    /\ sb.sets = <<"connected", "error", "refreshing">>
    /\ sb.item.command = "azureEnv.connect"
    /\ sb.item.backgroundColor = Undefined

-----------------------------------------------------------------------------
(* Claims about the collection after refreshCommand *)

\* C28 as stated: once refreshCommand has completed in a trusted workspace whose
\* settings have no endpoint or no selected keys (it showed its "No App
\* Configuration configured" warning, and nothing has been configured since),
\* the environment variable collection is empty (fails: refreshCommand returns
\* before refreshEnvironment, the only caller of clear(), is reached, so the
\* entries of an earlier refresh stay in the collection)
C28_AsStated ==
    (/\ isTrusted
     /\ ~Configured(settings)
     /\ notice = "No App Configuration configured"
     /\ \A p \in Triggers : cmd[p].pc = "idle")
        => env = <<>>

-----------------------------------------------------------------------------
(* Claims about what a pass leaves in the collection *)

\* the occurrences of a pass that succeeded, and the value each resolved to:
\* the secret for a reference, the stored value for any other setting
SucceededOccs(a) == {i \in 1..Len(a.keys) : OccResolved(a, i)}
OccValue(a, i) ==
    IF CallsFor(a, "resolveSecret.ok", i) # {}
    THEN a.calls[CHOOSE r \in CallsFor(a, "resolveSecret.ok", i) : TRUE].a
    ELSE StoredValue(a.calls[CHOOSE g \in CallsFor(a, "getSetting.ok", i) : TRUE])

\* the last of the succeeded occurrences whose key maps to the name
LastOccNamed(a, name) ==
    CHOOSE i \in SucceededOccs(a) :
        /\ transformKeyToEnvVar(a.keys[i]) = name
        /\ \A j \in SucceededOccs(a) : transformKeyToEnvVar(a.keys[j]) = name => j <= i

\* C29: when a pass that was not cancelled has returned, the collection holds
\* exactly the names transformKeyToEnvVar(k) of the key occurrences k that
\* succeeded in this pass, and so nothing of an earlier pass; the value under a
\* name is the one resolved for the last occurrence in selectedKeys that maps
\* to the name and succeeded.
C29_SinkIsThisPassLastWins ==
    (D.pc = "returned" /\ D.cancel # "requested") =>
        /\ DOMAIN env = {transformKeyToEnvVar(D.keys[i]) : i \in SucceededOccs(D)}
        /\ \A name \in DOMAIN env : env[name] = OccValue(D, LastOccNamed(D, name))
        /\ Cardinality(SucceededOccs(D)) = D.succeeded

\* C29 witness: two keys that map to one name both succeeded with different
\* values, and the collection holds the value of the second under that name
C29_Witness ==
    /\ D.pc = "returned"
    /\ D.cancel # "requested"
    /\ Len(D.keys) = 2
    /\ transformKeyToEnvVar(D.keys[1]) = transformKeyToEnvVar(D.keys[2])
    /\ SucceededOccs(D) = {1, 2}
    /\ OccValue(D, 1) # OccValue(D, 2)
    /\ env = [n \in {transformKeyToEnvVar(D.keys[2])} |-> OccValue(D, 2)]

-----------------------------------------------------------------------------
(* Claims about the release of the guard by refreshCommand *)

-----------------------------------------------------------------------------
(* Claims about the status bar of the extension *)

\* the states a command leaves the status bar in
TerminalStates == {"disconnected", "connected", "error"}

\* the handler of trigger p is inside connectCommand or refreshCommand
InConnectOrRefresh(p) ==
    cmd[p].pc \in {"connectFlow", "awaitSignIn", "awaitSubs", "refreshing"}

\* C31: whenever no connectCommand and no refreshCommand is in progress the
\* status bar state is disconnected, connected or error, and whenever a
\* connectCommand or a refreshCommand returns, the state it leaves is one of
\* these three; this holds under every interleaving of the commands.
C31_StatusTerminalWhenIdle ==
    /\ []((\A p \in Triggers : ~InConnectOrRefresh(p)) => ui.status \in TerminalStates)
    /\ [][\A p \in Triggers :
            (InConnectOrRefresh(p) /\ cmd'[p].pc = "idle") => ui'.status \in TerminalStates]_vars

\* C31 witness: a refresh has ended in success and a connect flow that ended
\* after it was dismissed, which left the status bar disconnected with the
\* notification of the refresh still the last one shown
C31_Witness ==
    /\ \A p \in Triggers : cmd[p].pc = "idle"
    /\ Configured(settings)
    /\ notice = "Environment refreshed: variables injected"
    /\ ui.status = "disconnected"

-----------------------------------------------------------------------------
(* Claims about the activation timer *)

\* C32: in one activation the callback of the auto-refresh timer runs at most
\* once, and only when endpoint and selected keys were configured when
\* activate ran (a later connect does not arm it); once the azureEnv.refresh
\* command has been invoked or deactivate has been called before the callback
\* ran, no timer is pending and the callback never runs.
C32_AutoRefreshAtMostOnce ==
    /\ life.fired <= 1
    /\ life.fired > 0 => life.armed
    /\ ~life.armed => autoRefreshTimeout = "undefined"
    /\ life.preempted => (life.fired = 0 /\ autoRefreshTimeout = "undefined")
    /\ life.fired > 0 => autoRefreshTimeout = "undefined"

\* C32 witness: the timer was armed, the refresh command was invoked before it
\* fired, that refresh has completed, and the callback has not run
C32_Witness ==
    /\ life.armed
    /\ life.preempted
    /\ life.active
    /\ life.fired = 0
    /\ notice = "Environment refreshed: variables injected"
    /\ \A p \in Triggers : cmd[p].pc = "idle"

-----------------------------------------------------------------------------
(* Claims about the refresh that follows a change of the configuration *)

\* the step in which the connect flow has succeeded: connectCommand saves
\* nothing itself (the flow did), sets the status bar to connected and calls
\* refreshCommand, which either starts (refreshing) or returns at once
ConnectSucceeds ==
    /\ cmd["connect"].pc = "connectFlow"
    /\ cmd'["connect"].pc # "connectFlow"
    /\ ui'.status \in {"connected", "refreshing"}

\* the step in which the add-config flow stops waiting: createSetting resolved
\* and deps.refresh() was called, or the flow stopped before
AddConfigSettles ==
    /\ cmd["addConfig"].pc = "addFlow"
    /\ cmd'["addConfig"].pc # "addFlow"

-----------------------------------------------------------------------------
(* Claims about workspace trust *)

WorkspaceTrustRequired == "Azure Env requires workspace trust"

\* C34: in an untrusted workspace refreshCommand, connectCommand and
\* addConfigCommand return in the step they are invoked, showing the workspace
\* trust error: the guard is never acquired, no handler gets past its trust
\* check (no connect flow, no add-config flow, no sign-in, no App Configuration
\* or Key Vault call), no pass exists, and the status bar, the saved settings
\* and the environment collection (no clear, no replace) never change.
C34_UntrustedDoesNothing ==
    /\ [](~isTrusted =>
            /\ ~inProgress
            /\ \A p \in Triggers : cmd[p] = IdleCmd /\ rf[p] = IdleRefresh
            /\ notice \in {"", WorkspaceTrustRequired})
    /\ [][~isTrusted =>
            /\ ui' = ui
            /\ settings' = settings
            /\ env' = env
            /\ notice' # notice => notice' = WorkspaceTrustRequired]_vars

\* C34 witness: an untrusted workspace with endpoint and keys configured, in
\* which a command has been invoked and has shown the workspace trust error
C34_Witness ==
    /\ ~isTrusted
    /\ Configured(settings)
    /\ notice = WorkspaceTrustRequired
    /\ env # <<>>
    /\ ui.status = "connected"
    /\ autoRefreshTimeout = "undefined"

-----------------------------------------------------------------------------
(* Claims about cancellation of a pass *)

\* the occurrences whose resolution was started: getSetting was called for them
StartedOccs(a) == {a.calls[j].i : j \in CallsOf(a, "getSetting")}

\* occurrence i was carried through: it failed and nothing was written for it,
\* or it resolved and exactly one replace was made for it
CarriedThrough(a, i) ==
    \/ OccFailed(a, i) /\ CallsFor(a, "replace", i) = {}
    \/ /\ ~OccFailed(a, i)
       /\ OccResolved(a, i)
       /\ Cardinality(CallsFor(a, "replace", i)) = 1

\* C35: cancellation is observed only at the head of the loop. An await of the
\* pass that settles after cancellation was requested is handled as if it had
\* not been: the setting goes on to its secret, or the occurrence is counted
\* (and written if it succeeded) before the pass returns. So every occurrence
\* that was started and is no longer awaited was carried through, the number of
\* replace calls is always succeeded, and in every result succeeded + failed is
\* the number of started occurrences.
C35_CancelBetweenKeysOnly ==
    /\ [](/\ Cardinality(CallsOf(D, "replace")) = D.succeeded
          /\ \A i \in StartedOccs(D) :
                (D.pc = "returned" \/ i < D.i) => CarriedThrough(D, i)
          /\ D.pc \in {"awaitSetting", "awaitSecret"} => D.i \in StartedOccs(D)
          /\ D.pc = "returned" =>
                /\ D.succeeded + D.failed = Cardinality(StartedOccs(D))
                /\ StartedOccs(D) = 1..(D.succeeded + D.failed))
    /\ [][(D.pc \in {"awaitSetting", "awaitSecret"} /\ D.cancel = "requested"
                /\ D' # D) =>
            \/ /\ D.pc = "awaitSetting" /\ D'.pc = "awaitSecret"
               /\ D'.i = D.i
               /\ D'.succeeded = D.succeeded /\ D'.failed = D.failed
               /\ env' = env
            \/ /\ D'.pc = "returned"
               /\ D'.succeeded + D'.failed = D.succeeded + D.failed + 1
               /\ CarriedThrough(D', D.i)
               /\ D'.succeeded > D.succeeded =>
                    transformKeyToEnvVar(D.keys[D.i]) \in DOMAIN env']_vars

\* C35 witness: cancellation was requested while the first of two keys, a Key
\* Vault reference, was being resolved; the secret was still resolved, written
\* and counted, and the second key was never started
C35_Witness ==
    /\ D.pc = "returned"
    /\ D.cancel = "requested"
    /\ Len(D.keys) = 2
    /\ D.succeeded = 1 /\ D.failed = 0
    /\ CallsFor(D, "resolveSecret.ok", 1) # {}
    /\ CallsFor(D, "replace", 1) # {}
    /\ StartedOccs(D) = {1}
    /\ transformKeyToEnvVar(D.keys[1]) \in DOMAIN env

-----------------------------------------------------------------------------
(* Claims about a refreshCommand that stops before its pass *)

\* what refreshCommand shows when it stops before refreshEnvironment: sign-in
\* refused, no subscriptions, the saved subscription not among them
EarlyStopNotices ==
    {"Azure sign-in required", "No Azure subscriptions available",
     "The Azure subscription used during setup is no longer available"}

\* the step in which the refreshCommand of trigger p stops for one of these
StopsBeforePass(p) ==
    /\ cmd[p].pc \in {"awaitSignIn", "awaitSubs"}
    /\ cmd'[p].pc = "idle"
    /\ notice' \in EarlyStopNotices

\* C36: the step in which refreshCommand stops because sign-in was refused, no
\* subscription was returned or the saved subscription is gone leaves the
\* environment collection exactly as it was, starts no pass (no clear, no
\* replace, no fetch), sets the status bar to error and releases the guard the
\* command held.
C36_EarlyStopKeepsEnv ==
    [][\A p \in Triggers :
        StopsBeforePass(p) =>
            /\ env' = env
            /\ rf' = rf /\ rf[p] = IdleRefresh
            /\ ui'.status = "error"
            /\ inProgress /\ cmd[p].holds
            /\ ~inProgress'
            /\ cmd'[p] = IdleCmd
            /\ settings' = settings]_vars

\* C36 witness: a refreshCommand found no subscription and stopped; the values
\* that were in the collection before are still there, the status bar shows
\* error and the guard is Idle
C36_Witness ==
    /\ notice = "No Azure subscriptions available"
    /\ env \in StaleEnvs \ {<<>>}
    /\ ui.status = "error"
    /\ ~inProgress
    /\ \A p \in Triggers : cmd[p] = IdleCmd

=============================================================================
